---- MODULE Spec2Model ----
(***************************************************************************)
(* Model of the process-backed MCP client of summariser_mcp:               *)
(*   MCPManager        (src/utils/mcp_manager.py)                          *)
(*   SimpleMCPClient   (src/playwright_mcp_client.py)                      *)
(* together with the child process (the peer), its stdin/stdout pipes, the *)
(* background asyncio event loops and the threads asyncio.to_thread parks  *)
(* in stdout.read.                                                         *)
(***************************************************************************)
EXTENDS Integers, Sequences, FiniteSets, TLC

\* ---------------------------------------------------------------- bounds
MaxStarts == 2       \* start() invocations on the manager
MaxCalls == 2        \* call_tool() invocations on the manager
MaxLifeCalls == 2    \* call_tool() invocations within the life cycle of the application
MaxRestartCalls == 1 \* call_tool() invocations on a manager started repeatedly
MaxPeerCalls == 1    \* call_tool() invocations against a peer that may do anything
MaxTimedCalls == 1   \* call_tool() invocations while the clock runs
MaxChunk == 2        \* frames one stdout.read(1024) may return together
MaxNotifs == 1       \* unsolicited notification frames the peer emits
MaxNow == 5          \* how far the clock runs, in units of 30 seconds
MaxWriterCalls == 2  \* call_tool() invocations while the child may stop reading

\* ------------------------------------------------------------ vocabulary
Threads == {"main", "w1"}          \* main thread and one request-handler thread
Tools == {"ping"}                  \* tool names the peer may advertise
Names == {"ping", "nope"}          \* tool names a caller may ask for
NoId == 0                          \* a message without an id field
NoFrame == 0 - 1                   \* an outcome that was computed from no frame
JsonKinds == {"result", "error"}               \* the answers of a peer that speaks JSON-RPC
FrameKinds == JsonKinds \cup {"garbage"}        \* the answers of any peer
None == 0                          \* Python's None for a handle
OperationTimeout == 2              \* MCPManager._operation_timeout, 60 s, in units of 30 s
ClientTimeout == 2                 \* the default of SimpleMCPClient.call_tool's timeout, 60.0 s
Timeouts == {None, 1, 4}           \* the timeout a caller passes: None, 30 s or 120 s

VARIABLES
  mcp_process,      \* MCPManager.mcp_process: None or the index of a spawned child
  mcp_client,       \* MCPManager.mcp_client: None or the index of a client
  event_loop,       \* MCPManager.event_loop: None or the index of a loop
  available_tools,  \* MCPManager.available_tools (the keys)
  nstarts,          \* how many times start() was entered
  loopState,        \* per loop: "none" | "running" | "stopped"
  procState,        \* per child: "none" | "running" | "exited"
  stdin,            \* per child: the messages written to its stdin, in order
  stdout,           \* per child: frames the peer wrote that no read has taken
  signals,          \* per child: the signals sent to it, in order
  request_id,       \* per client: SimpleMCPClient.request_id
  issued,           \* per client: the ids _create_request handed out, in order
  tasks,            \* coroutines submitted to the event loops
  pc,               \* per thread: where it is in the manager method it runs
  curTask,          \* per thread: the task whose future it waits on
  ret,              \* per thread: what its last call_tool() or is_healthy() returned
  arg,              \* per thread: the tool name of its last call_tool()
  startRet,         \* per start(): "none" | "running" | "true" | "false"
  ready,            \* the last start() returned True and cleanup() has not run since
  ncalls,           \* how many times call_tool() was entered
  notifs,           \* how many notification frames the peer emitted
  answered,         \* <<child, id>> of the requests the peer has answered
  raised,           \* the manager methods that let an exception reach their caller
  pipe,             \* per child: "open" | "full" (it stopped reading its stdin)
                    \*            | "closed" (it closed its ends while running)
  now,              \* the clock
  tmo,              \* per call_tool(): the timeout its caller passes
  elapsed,          \* per call_tool(): how long ago it was entered
  age,              \* per coroutine: how long its asyncio.wait_for has run
  sent,             \* the characters the peer writes to its stdout, in order
  wire,             \* those of them that no stdout.read has returned yet
  wireEnd,          \* what the peer does after them: "open" | "closed" | "exited"
  buffer,           \* the local buffer of _read_complete_response
  reading,          \* a _read_complete_response is in its loop
  reads,            \* what the successive _read_complete_response calls returned
  response,         \* what json.loads made of a response line
  returned,         \* what SimpleMCPClient.call_tool returns for it
  listed            \* the dictionary the last MCPManager.list_tools() returned,
                    \* as its caller has it now

vars == <<mcp_process, mcp_client, event_loop, available_tools, nstarts,
          loopState, procState, stdin, stdout, signals, request_id, issued,
          tasks, pc, curTask, ret, arg, startRet, ready, ncalls, notifs,
          answered, raised, pipe, now, tmo, elapsed, age, sent, wire, wireEnd,
          buffer, reading, reads, response, returned, listed>>

clockVars == <<now, tmo, elapsed, age>>
textVars == <<sent, wire, wireEnd, buffer, reading, reads, response, returned>>
faultVars == <<raised, pipe>>

mgrVars == <<mcp_process, mcp_client, event_loop, available_tools>>
pipeVars == <<stdin, stdout, signals, procState>>
peerVars == <<notifs, answered>>
idVars == <<request_id, issued>>
thrVars == <<pc, curTask, ret, arg>>

Starts == 1..MaxStarts
CallIds == 1..MaxCalls                     \* the invocations of call_tool(), in order
TaskIds == 1..(2 * MaxStarts + MaxCalls)   \* the coroutines, in order of submission

\* What a coroutine returned, or what call_tool() returned.
\*   k     the kind of value
\*   src   the id field of the frame the value was computed from (NoId for a
\*         frame without id, NoFrame when it was computed from no frame)
\*   late  the frame was written by the peer after its request had timed out
\*   tools the catalog, for list_tools
Outcome(k, src, late, tools) == [k |-> k, src |-> src, late |-> late, tools |-> tools]
NoOutcome == Outcome("none", NoFrame, FALSE, {})

Request(method, id, name) == [method |-> method, id |-> id, name |-> name]

Frame(id, kind, meth, tools, late) ==
  [id |-> id, kind |-> kind, meth |-> meth, tools |-> tools, late |-> late]

\* A coroutine of a loop.
\*   st        "scheduled" | "writing" (blocked in stdin.write) | "reading" | "done"
\*   rd        "blocked" while a thread it started is parked in stdout.read
\*   id        the id of its request, once created
\*   timedOut  its asyncio.wait_for timed out
\*   abandoned its caller's future.result(timeout) timed out
\*   stale     the ids of the session that had timed out when it was submitted
\*   call      for a tools/call, which call_tool() submitted it
NewTask(kind, loop, client, tool, stale) ==
  [kind |-> kind, loop |-> loop, client |-> client, tool |-> tool,
   st |-> "scheduled", rd |-> "none", id |-> NoId, abandoned |-> FALSE,
   timedOut |-> FALSE, stale |-> stale, call |-> 0, res |-> NoOutcome]

\* A dictionary list_tools() returned: its keys, and whether it is the very
\* object the manager holds as its catalog.
Listing(tools, shared) == [tools |-> tools, shared |-> shared]
NoListing == Listing({}, FALSE)

\* A key that a JSON object does not have.
Absent == [t |-> "absent", v |-> ""]

\* The JSON object without members.
NoResponse == [error |-> Absent, result |-> Absent]

\* The peer has written nothing, nothing was read and nothing was parsed.
NoText ==
  /\ sent = <<>>
  /\ wire = <<>>
  /\ wireEnd = "open"
  /\ buffer = <<>>
  /\ reading = FALSE
  /\ reads = <<>>
  /\ response = NoResponse
  /\ returned = <<>>

\* MCPManager.__init__, lines 19-27, before any child, loop or call exists.
FreshManager ==
  /\ mcp_process = None
  /\ mcp_client = None
  /\ event_loop = None
  /\ available_tools = {}
  /\ nstarts = 0
  /\ loopState = [n \in Starts |-> "none"]
  /\ procState = [n \in Starts |-> "none"]
  /\ stdin = [n \in Starts |-> <<>>]
  /\ stdout = [n \in Starts |-> <<>>]
  /\ signals = [n \in Starts |-> <<>>]
  /\ request_id = [n \in Starts |-> 0]
  /\ issued = [n \in Starts |-> <<>>]
  /\ tasks = <<>>
  /\ pc = [t \in Threads |-> "idle"]
  /\ curTask = [t \in Threads |-> 0]
  /\ ret = [t \in Threads |-> NoOutcome]
  /\ arg = [t \in Threads |-> ""]
  /\ startRet = [n \in Starts |-> "none"]
  /\ ready = FALSE
  /\ ncalls = 0
  /\ notifs = 0
  /\ answered = {}
  /\ raised = {}
  /\ pipe = [n \in Starts |-> "open"]
  /\ now = 0
  /\ tmo = [n \in CallIds |-> None]
  /\ elapsed = [n \in CallIds |-> 0]
  /\ age = [i \in TaskIds |-> 0]
  /\ listed = NoListing

Init ==
  /\ FreshManager
  /\ NoText

\* ------------------------------------------------------------ MCPManager

\* is_healthy without the poll() of the child.
is_healthy_nopoll ==
  /\ mcp_process /= None
  /\ mcp_client /= None
  /\ event_loop /= None

\* MCPManager.is_healthy, lines 159-164.
is_healthy ==
  /\ mcp_process /= None
  /\ procState[mcp_process] = "running"
  /\ mcp_client /= None
  /\ event_loop /= None

\* asyncio.run_coroutine_threadsafe inside MCPManager._run_async: the
\* coroutine becomes a task of the loop the manager holds.
Submit(kind, client, tool) ==
  LET stale == {tasks[x].id : x \in {y \in DOMAIN tasks :
                   /\ tasks[y].client = client
                   /\ tasks[y].id /= NoId
                   /\ (tasks[y].timedOut \/ tasks[y].abandoned)}}
  IN Append(tasks, [NewTask(kind, event_loop, client, tool, stale) EXCEPT
                      !.call = IF kind = "tools/call" THEN ncalls + 1 ELSE 0])

\* start() returns: the thread is idle again and the outcome is recorded.
StartReturns(value) ==
  /\ pc' = [pc EXCEPT !["main"] = "idle"]
  /\ curTask' = [curTask EXCEPT !["main"] = 0]
  /\ startRet' = [startRet EXCEPT ![nstarts] = IF value THEN "true" ELSE "false"]
  /\ ready' = value

\* start(), lines 59-63: the loop thread is started and creates the loop.
StartBegin ==
  /\ pc["main"] = "idle"
  /\ nstarts < MaxStarts
  /\ nstarts' = nstarts + 1
  /\ loopState' = [loopState EXCEPT ![nstarts + 1] = "running"]
  /\ event_loop' = nstarts + 1
  /\ startRet' = [startRet EXCEPT ![nstarts + 1] = "running"]
  /\ pc' = [pc EXCEPT !["main"] = "start_spawn"]
  /\ UNCHANGED <<mcp_process, mcp_client, available_tools, pipeVars, idVars,
                 tasks, curTask, ret, arg, ready, ncalls, peerVars,
                 clockVars, faultVars, textVars, listed>>

\* start(), lines 65-78: subprocess.Popen either raises (caught at line 96)
\* or yields the child, and the thread sleeps through the grace window.
StartSpawn ==
  /\ pc["main"] = "start_spawn"
  /\ \/ /\ StartReturns(FALSE)
        /\ UNCHANGED <<mcp_process, procState>>
     \/ /\ mcp_process' = nstarts
        /\ procState' = [procState EXCEPT ![nstarts] = "running"]
        /\ pc' = [pc EXCEPT !["main"] = "start_grace"]
        /\ UNCHANGED <<curTask, startRet, ready>>
  /\ UNCHANGED <<mcp_client, event_loop, available_tools, nstarts, loopState,
                 stdin, stdout, signals, idVars, tasks, ret, arg, ncalls, peerVars,
                 clockVars, faultVars, textVars, listed>>

\* A start() that does not look at the child after the grace window.
DiedImmediately_unchecked(p) == FALSE

\* start(), line 80: poll() of the child after the grace window reports an
\* exit code.
DiedImmediately(p) == procState[p] /= "running"

\* start(), lines 80-87 with _initialize_client, lines 112-123: the liveness
\* check after the grace window, the import of the client class, the creation
\* of the client and the submission of initialize().
StartGrace ==
  /\ pc["main"] = "start_grace"
  /\ \/ /\ DiedImmediately(nstarts)
        /\ StartReturns(FALSE)
        /\ UNCHANGED <<mcp_client, tasks>>
     \/ /\ ~DiedImmediately(nstarts)
        /\ StartReturns(FALSE)              \* ImportError, line 132
        /\ UNCHANGED <<mcp_client, tasks>>
     \/ /\ ~DiedImmediately(nstarts)
        /\ mcp_client' = nstarts
        /\ tasks' = Submit("initialize", nstarts, "")
        /\ pc' = [pc EXCEPT !["main"] = "start_wait_init"]
        /\ curTask' = [curTask EXCEPT !["main"] = Len(tasks) + 1]
        /\ UNCHANGED <<startRet, ready>>
  /\ UNCHANGED <<mcp_process, event_loop, available_tools, nstarts, loopState,
                 pipeVars, idVars, ret, arg, ncalls, peerVars,
                 clockVars, faultVars, textVars, listed>>

\* _run_async, lines 47-52, when future.result(timeout) raises: the caller
\* gives up and gets None; the coroutine is not cancelled and stays a task
\* of the loop.
Abandon(i) == [tasks EXCEPT ![i].abandoned = TRUE]

\* _initialize_client, lines 125-130: what initialize() returned decides.
InitSuccess(res) == res.k = "true"

\* _initialize_client, lines 120-130, when the future of initialize() has a
\* result; then start(), lines 89-90, and _discover_tools, line 143.
StartInitDone ==
  /\ pc["main"] = "start_wait_init"
  /\ tasks[curTask["main"]].st = "done"
  /\ \/ /\ InitSuccess(tasks[curTask["main"]].res)
        /\ tasks' = Submit("tools/list", mcp_client, "")
        /\ pc' = [pc EXCEPT !["main"] = "start_wait_disc"]
        /\ curTask' = [curTask EXCEPT !["main"] = Len(tasks) + 1]
        /\ UNCHANGED <<startRet, ready>>
     \/ /\ ~InitSuccess(tasks[curTask["main"]].res)
        /\ StartReturns(FALSE)
        /\ UNCHANGED tasks
  /\ UNCHANGED <<mgrVars, nstarts, loopState, pipeVars, idVars, ret, arg, ncalls,
                 peerVars, clockVars, faultVars, textVars, listed>>

\* _initialize_client when _run_async times out (startup timeout): None is
\* falsy, so start() returns False.
StartInitTimeout ==
  /\ pc["main"] = "start_wait_init"
  /\ tasks[curTask["main"]].st /= "done"
  /\ tasks' = Abandon(curTask["main"])
  /\ StartReturns(FALSE)
  /\ UNCHANGED <<mgrVars, nstarts, loopState, pipeVars, idVars, ret, arg, ncalls,
                 peerVars, clockVars, faultVars, textVars, listed>>

\* A discovery that never stores what it found.
DiscoverTools_keep(tools) == available_tools

\* _discover_tools, lines 145-151: a non-empty mapping replaces the catalog,
\* an empty one leaves it; its boolean result only selects a log line in
\* start(), lines 90-94, which then returns True.
DiscoverTools(tools) == IF tools /= {} THEN tools ELSE available_tools

\* A start() that gives up when nothing was discovered.
StartAfterDiscovery_strict(tools) == tools /= {}

\* start(), lines 90-94: what start() returns once _discover_tools came back
\* with the mapping tools (None when it timed out); a failed discovery is
\* logged and start() returns True all the same.
StartAfterDiscovery(tools) == TRUE

\* _discover_tools, lines 143-151, when the future of list_tools() has a
\* result, and the return of start().
StartDiscDone ==
  /\ pc["main"] = "start_wait_disc"
  /\ tasks[curTask["main"]].st = "done"
  /\ available_tools' = DiscoverTools(tasks[curTask["main"]].res.tools)
  /\ StartReturns(StartAfterDiscovery(tasks[curTask["main"]].res.tools))
  /\ UNCHANGED <<mcp_process, mcp_client, event_loop, nstarts, loopState,
                 pipeVars, idVars, tasks, ret, arg, ncalls, peerVars,
                 clockVars, faultVars, textVars, listed>>

\* _discover_tools when _run_async times out: tools is None.
StartDiscTimeout ==
  /\ pc["main"] = "start_wait_disc"
  /\ tasks[curTask["main"]].st /= "done"
  /\ tasks' = Abandon(curTask["main"])
  /\ StartReturns(StartAfterDiscovery({}))
  /\ UNCHANGED <<mgrVars, nstarts, loopState, pipeVars, idVars, ret, arg, ncalls,
                 peerVars, clockVars, faultVars, textVars, listed>>

\* ------------------------------------------------------- SimpleMCPClient

\* An id counter that stops advancing after the first request.
NextId_stuck(c) == IF request_id[c] = 0 THEN 1 ELSE request_id[c]

\* _create_request, line 22: the id the next request carries.
NextId(c) == request_id[c] + 1

\* What each coroutine returns when the write to stdin raises (the child has
\* exited): call_tool lines 145-156, initialize lines 252-254, list_tools
\* lines 56-58.
OutcomeWriteFail(kind) ==
  CASE kind = "tools/call" -> Outcome("died", NoFrame, FALSE, {})
    [] kind = "initialize" -> Outcome("false", NoFrame, FALSE, {})
    [] OTHER -> Outcome("list_exc", NoFrame, FALSE, {})

\* What each coroutine returns when the write to stdin raises while the child
\* runs (it closed its end of the pipe): call_tool line 158, initialize lines
\* 252-254, list_tools lines 56-58.
OutcomeWriteRefused(kind) ==
  CASE kind = "tools/call" -> Outcome("error_calling", NoFrame, FALSE, {})
    [] kind = "initialize" -> Outcome("false", NoFrame, FALSE, {})
    [] OTHER -> Outcome("list_exc", NoFrame, FALSE, {})

\* A loop whose coroutines run while one of them is inside a write.
LoopFree_always(l) == TRUE

\* The loop thread is not blocked inside a coroutine: stdin.write and flush
\* are synchronous calls on the loop thread (lines 105-106, 228-229, 242-243).
LoopFree(l) == \A j \in DOMAIN tasks : ~(tasks[j].loop = l /\ tasks[j].st = "writing")

\* What each coroutine returns when asyncio.wait_for times out: call_tool
\* lines 141-143, initialize lines 248-250, list_tools lines 56-58.
OutcomeTimeout(kind) ==
  CASE kind = "tools/call" -> Outcome("timeout", NoFrame, FALSE, {})
    [] kind = "initialize" -> Outcome("false", NoFrame, FALSE, {})
    [] OTHER -> Outcome("list_timeout", NoFrame, FALSE, {})

\* What each coroutine returns when _read_complete_response ended without a
\* line (it returns the empty buffer): call_tool lines 137-139 return the
\* text; list_tools fails to parse it; initialize goes on to write the
\* notification to a child that has exited, which raises.
OutcomeOfEnd(kind) ==
  CASE kind = "tools/call" -> Outcome("empty", NoFrame, FALSE, {})
    [] kind = "initialize" -> Outcome("false", NoFrame, FALSE, {})
    [] OTHER -> Outcome("list_exc", NoFrame, FALSE, {})

\* _is_complete_json, lines 203-209: whether json.loads accepts the line.
IsJson(f) == f.kind /= "garbage"

\* The lines of a chunk that parse as JSON.
JsonLines(chunk) == {m \in DOMAIN chunk : IsJson(chunk[m])}

\* _read_complete_response, lines 182-187: the line handed to the caller is
\* the first line of the chunk that parses as JSON, whatever its id.
AcceptFrame(chunk, id) ==
  chunk[CHOOSE m \in JsonLines(chunk) : \A n \in JsonLines(chunk) : m <= n]

\* What each coroutine computes from the line it was handed: call_tool lines
\* 119-135, initialize lines 233-246 (alive is whether the write of the
\* notification succeeds), list_tools lines 45-54.
OutcomeOfFrame(kind, f, alive) ==
  CASE kind = "tools/call" ->
         Outcome(IF f.kind = "error" THEN "error" ELSE "result", f.id, f.late, {})
    [] kind = "initialize" ->
         Outcome(IF alive THEN "true" ELSE "false", f.id, f.late, {})
    [] OTHER ->
         IF f.kind = "error"
           THEN Outcome("list_error", f.id, f.late, {})
           ELSE Outcome("tools", f.id, f.late,
                        IF f.kind = "result" /\ f.meth = "tools/list"
                          THEN f.tools ELSE {})

\* The notifications/initialized message, lines 237-243: it has no id.
InitializedNotification == Request("notifications/initialized", NoId, "")

\* The first step of a coroutine on its loop: _create_request, the write and
\* flush on stdin, and the first pass of _read_complete_response up to the
\* await of asyncio.to_thread(stdout.read), which parks a thread in read.
\* Callbacks of one loop run in the order they were scheduled. The write
\* blocks the loop thread when the pipe is full and raises when the child
\* closed its end or has exited.
TaskStart(i) ==
  LET tk == tasks[i]
      c == tk.client
      id == NextId(c)
  IN /\ tk.st = "scheduled"
     /\ loopState[tk.loop] = "running"
     /\ \A j \in 1..(i - 1) : ~(tasks[j].loop = tk.loop /\ tasks[j].st = "scheduled")
     /\ LoopFree(tk.loop)
     /\ request_id' = [request_id EXCEPT ![c] = id]
     /\ issued' = [issued EXCEPT ![c] = Append(@, id)]
     /\ IF procState[c] = "running" /\ pipe[c] = "open"
          THEN /\ stdin' = [stdin EXCEPT ![c] = Append(@, Request(tk.kind, id, tk.tool))]
               /\ tasks' = [tasks EXCEPT ![i].st = "reading", ![i].rd = "blocked",
                                         ![i].id = id]
          ELSE IF procState[c] = "running" /\ pipe[c] = "full"
          THEN /\ stdin' = stdin
               /\ tasks' = [tasks EXCEPT ![i].st = "writing", ![i].id = id]
          ELSE IF procState[c] = "running"
          THEN /\ stdin' = stdin
               /\ tasks' = [tasks EXCEPT ![i].st = "done", ![i].id = id,
                                         ![i].res = OutcomeWriteRefused(tk.kind)]
          ELSE /\ stdin' = stdin
               /\ tasks' = [tasks EXCEPT ![i].st = "done", ![i].id = id,
                                         ![i].res = OutcomeWriteFail(tk.kind)]
     /\ UNCHANGED <<mgrVars, nstarts, loopState, procState, stdout, signals,
                    thrVars, startRet, ready, ncalls, peerVars,
                    clockVars, faultVars, textVars, listed>>

\* asyncio.wait_for gives up on _read_complete_response: the coroutine is
\* cancelled and returns its timeout value; the thread parked in stdout.read
\* is not interrupted.
TaskTimeout(i) ==
  /\ tasks[i].st = "reading"
  /\ loopState[tasks[i].loop] = "running"
  /\ LoopFree(tasks[i].loop)
  /\ tasks' = [tasks EXCEPT ![i].st = "done", ![i].timedOut = TRUE,
                            ![i].res = OutcomeTimeout(tasks[i].kind)]
  /\ UNCHANGED <<mgrVars, nstarts, loopState, pipeVars, idVars, thrVars,
                 startRet, ready, ncalls, peerVars, clockVars, faultVars,
                 textVars, listed>>

RECURSIVE Drop(_, _)
Drop(s, k) == IF k = 0 THEN s ELSE Drop(Tail(s), k - 1)

\* A read that leaves in the pipe what it returned.
Remaining_peek(s, k) == s

\* stdout.read(1024), line 173: what the pipe holds after a read returned
\* its first k frames; the operating system hands each byte to one read.
Remaining(s, k) == Drop(s, k)

\* A thread parked in stdout.read(1024) by task i returns. It takes a chunk of
\* k frames from the pipe, or end of file once the child has exited or closed
\* its stdout and the pipe is empty. When the coroutine still awaits it and its loop runs, the
\* coroutine resumes (lines 174-201 and then its caller); otherwise what was
\* read is dropped with the thread. A chunk without a line that parses as
\* JSON is skipped and the next read is parked (lines 189-190 and 173).
ReaderRead(i, k) ==
  LET tk == tasks[i]
      p == tk.client
      live == tk.st = "reading" /\ loopState[tk.loop] = "running"
      eof == k = 0
      chunk == SubSeq(stdout[p], 1, k)
  IN /\ tk.rd = "blocked"
     /\ \/ k \in 1..Len(stdout[p])
        \/ k = 0 /\ stdout[p] = <<>> /\ (procState[p] = "exited" \/ pipe[p] = "closed")
     /\ live => LoopFree(tk.loop)
     /\ stdout' = [stdout EXCEPT ![p] = Remaining(@, k)]
     /\ IF ~live
          THEN /\ tasks' = [tasks EXCEPT ![i].rd = "none"]
               /\ stdin' = stdin
          ELSE IF eof
          THEN /\ tasks' = [tasks EXCEPT ![i].rd = "none", ![i].st = "done",
                                         ![i].res = OutcomeOfEnd(tk.kind)]
               /\ stdin' = stdin
          ELSE IF JsonLines(chunk) = {}
          THEN /\ tasks' = tasks
               /\ stdin' = stdin
          ELSE LET f == AcceptFrame(chunk, tk.id)
                   alive == procState[p] = "running" /\ pipe[p] = "open"
                   blocks == procState[p] = "running" /\ pipe[p] = "full"
               IN /\ tasks' = IF tk.kind = "initialize" /\ blocks
                                THEN [tasks EXCEPT ![i].rd = "none", ![i].st = "writing"]
                                ELSE [tasks EXCEPT ![i].rd = "none", ![i].st = "done",
                                         ![i].res = OutcomeOfFrame(tk.kind, f, alive)]
                  /\ stdin' = IF tk.kind = "initialize" /\ alive
                                THEN [stdin EXCEPT ![p] = Append(@, InitializedNotification)]
                                ELSE stdin
     /\ UNCHANGED <<mgrVars, nstarts, loopState, procState, signals, idVars,
                    thrVars, startRet, ready, ncalls, peerVars,
                    clockVars, faultVars, textVars, listed>>

\* A write that blocked the loop thread raises once the child has exited or
\* closed its end of the pipe; the coroutine returns as for a failed write.
WriteBroken(i) ==
  LET tk == tasks[i]
      p == tk.client
  IN /\ tk.st = "writing"
     /\ loopState[tk.loop] = "running"
     /\ procState[p] = "exited" \/ pipe[p] = "closed"
     /\ tasks' = [tasks EXCEPT ![i].st = "done",
                     ![i].res = IF procState[p] = "exited"
                                  THEN OutcomeWriteFail(tk.kind)
                                  ELSE OutcomeWriteRefused(tk.kind)]
     /\ UNCHANGED <<mgrVars, nstarts, loopState, pipeVars, idVars, thrVars,
                    startRet, ready, ncalls, peerVars, clockVars, faultVars,
                    textVars, listed>>

\* ------------------------------------------------------------- the peer

\* The child answers a request it has received and not yet answered, in any
\* order, with a result or an error carrying the id of the request, or with
\* a line that is not JSON.
PeerRespond(p, j, kind, tools) ==
  LET req == stdin[p][j]
      late == \E i \in DOMAIN tasks :
                /\ tasks[i].client = p /\ tasks[i].id = req.id
                /\ (tasks[i].timedOut \/ tasks[i].abandoned)
  IN /\ procState[p] = "running"
     /\ pipe[p] = "open"
     /\ req.id /= NoId
     /\ <<p, req.id>> \notin answered
     /\ tools /= {} => (kind = "result" /\ req.method = "tools/list")
     /\ stdout' = [stdout EXCEPT ![p] =
                     Append(@, Frame(IF kind = "garbage" THEN NoId ELSE req.id,
                                     kind, req.method, tools, late))]
     /\ answered' = answered \cup {<<p, req.id>>}
     /\ UNCHANGED <<mgrVars, nstarts, loopState, procState, stdin, signals,
                    idVars, tasks, thrVars, startRet, ready, ncalls, notifs,
                    clockVars, faultVars, textVars, listed>>

\* The child emits a notification: a JSON line without an id.
PeerNotify(p) ==
  /\ procState[p] = "running"
  /\ pipe[p] = "open"
  /\ notifs < MaxNotifs
  /\ notifs' = notifs + 1
  /\ stdout' = [stdout EXCEPT ![p] = Append(@, Frame(NoId, "notif", "none", {}, FALSE))]
  /\ UNCHANGED <<mgrVars, nstarts, loopState, procState, stdin, signals,
                 idVars, tasks, thrVars, startRet, ready, ncalls, answered,
                 clockVars, faultVars, textVars, listed>>

\* The child exits on its own.
PeerDie(p) ==
  /\ procState[p] = "running"
  /\ procState' = [procState EXCEPT ![p] = "exited"]
  /\ UNCHANGED <<mgrVars, nstarts, loopState, stdin, stdout, signals, idVars,
                 tasks, thrVars, startRet, ready, ncalls, peerVars,
                 clockVars, faultVars, textVars, listed>>

\* The child stops reading its stdin while it runs; the pipe is full from
\* then on and the child writes nothing more.
PeerStall(p) ==
  /\ procState[p] = "running"
  /\ pipe[p] = "open"
  /\ pipe' = [pipe EXCEPT ![p] = "full"]
  /\ UNCHANGED <<mgrVars, nstarts, loopState, pipeVars, idVars, tasks, thrVars,
                 startRet, ready, ncalls, peerVars, clockVars, raised,
                 textVars, listed>>

\* The child closes its stdin and stdout while it runs.
PeerClose(p) ==
  /\ procState[p] = "running"
  /\ pipe[p] /= "closed"
  /\ pipe' = [pipe EXCEPT ![p] = "closed"]
  /\ UNCHANGED <<mgrVars, nstarts, loopState, pipeVars, idVars, tasks, thrVars,
                 startRet, ready, ncalls, peerVars, clockVars, raised,
                 textVars, listed>>

\* ------------------------------------------------ MCPManager.call_tool

\* A catalog gate that lets every name through.
ToolAvailable_any(name) == TRUE

\* call_tool, line 172: the catalog gate.
ToolAvailable(name) == name \in available_tools

\* call_tool, lines 168-181: the health gate, the catalog gate, and the
\* submission of SimpleMCPClient.call_tool to the loop by _run_async.
CallTool(t, name) ==
  /\ pc[t] = "idle"
  /\ ncalls < MaxCalls
  /\ ncalls' = ncalls + 1
  /\ arg' = [arg EXCEPT ![t] = name]
  /\ IF ~is_healthy
       THEN /\ ret' = [ret EXCEPT ![t] = Outcome("None", NoFrame, FALSE, {})]
            /\ UNCHANGED <<tasks, pc, curTask>>
       ELSE IF ~ToolAvailable(name)
       THEN /\ ret' = [ret EXCEPT ![t] = Outcome("not_available", NoFrame, FALSE, {})]
            /\ UNCHANGED <<tasks, pc, curTask>>
       ELSE /\ tasks' = Submit("tools/call", mcp_client, name)
            /\ pc' = [pc EXCEPT ![t] = "call_wait"]
            /\ curTask' = [curTask EXCEPT ![t] = Len(tasks) + 1]
            /\ ret' = [ret EXCEPT ![t] = NoOutcome]
  /\ UNCHANGED <<mgrVars, nstarts, loopState, pipeVars, idVars, startRet,
                 ready, peerVars, clockVars, faultVars, textVars, listed>>

\* call_tool, lines 183-188, when the future has a result: the string the
\* coroutine returned is returned.
CallDone(t) ==
  /\ pc[t] = "call_wait"
  /\ tasks[curTask[t]].st = "done"
  /\ ret' = [ret EXCEPT ![t] = tasks[curTask[t]].res]
  /\ pc' = [pc EXCEPT ![t] = "idle"]
  /\ curTask' = [curTask EXCEPT ![t] = 0]
  /\ arg' = arg
  /\ UNCHANGED <<mgrVars, nstarts, loopState, pipeVars, idVars, tasks,
                 startRet, ready, ncalls, peerVars, clockVars, faultVars,
                 textVars, listed>>

\* A future.result(timeout) that never gives up.
FutureResultExpires_never(t) == FALSE

\* _run_async, lines 45 and 49: future.result(timeout) with the timeout of
\* the caller, or 60 seconds when that is None or 0, gives up at its deadline.
FutureResultExpires(t) == TRUE

\* A call_tool() that lets the exception of future.result reach its caller.
CallFailed_raise == Outcome("raise", NoFrame, FALSE, {})

\* What call_tool() returns when future.result raises: _run_async catches the
\* exception and returns None (lines 50-52), and call_tool() turns None into
\* the tool-call-failed string (lines 183-185).
CallFailed == Outcome("failed", NoFrame, FALSE, {})

\* call_tool when _run_async times out: None becomes the tool-call-failed
\* string, lines 183-185.
CallTimeout(t) ==
  /\ pc[t] = "call_wait"
  /\ tasks[curTask[t]].st /= "done"
  /\ FutureResultExpires(t)
  /\ tasks' = Abandon(curTask[t])
  /\ ret' = [ret EXCEPT ![t] = CallFailed]
  /\ pc' = [pc EXCEPT ![t] = "idle"]
  /\ curTask' = [curTask EXCEPT ![t] = 0]
  /\ arg' = arg
  /\ UNCHANGED <<mgrVars, nstarts, loopState, pipeVars, idVars, startRet,
                 ready, ncalls, peerVars, clockVars, faultVars,
                 textVars, listed>>

\* -------------------------------------------------- MCPManager.cleanup

\* A terminate() that signals a child whatever its state.
TerminateDelivers_always(p) == TRUE

\* Popen.terminate(), line 206: the signal goes to a child that runs; for a
\* child that has exited the call does nothing.
TerminateDelivers(p) == procState[p] = "running"

\* A wait(timeout=5) that always times out.
WaitTimedOut_always(p) == TRUE

\* wait(timeout=5), lines 207-209: it raises TimeoutExpired when the child has
\* not exited at the end of the grace period, and returns when it has.
WaitTimedOut(p) == procState[p] = "running"

\* A cleanup() that keeps its handles.
HandleAfterCleanup_keep(h) == h

\* cleanup, lines 226-228: the handles are set to None.
HandleAfterCleanup(h) == None

\* cleanup, lines 203-207: terminate() when the manager holds a child, and the
\* entry into wait(timeout=5), which returns at once for a child that has
\* exited.
CleanupTerminate ==
  /\ pc["main"] = "idle"
  /\ IF mcp_process /= None /\ TerminateDelivers(mcp_process)
       THEN /\ signals' = [signals EXCEPT ![mcp_process] = Append(@, "term")]
            /\ pc' = [pc EXCEPT !["main"] = "cleanup_wait"]
       ELSE /\ signals' = signals
            /\ pc' = [pc EXCEPT !["main"] = "cleanup_loop"]
  /\ UNCHANGED <<mgrVars, nstarts, loopState, procState, stdin, stdout, idVars,
                 tasks, curTask, ret, arg, startRet, ready, ncalls, peerVars,
                 clockVars, faultVars, textVars, listed>>

\* cleanup, lines 207-208: wait() returns, the child has exited within the
\* grace period.
CleanupWaitDone ==
  /\ pc["main"] = "cleanup_wait"
  /\ ~WaitTimedOut(mcp_process)
  /\ pc' = [pc EXCEPT !["main"] = "cleanup_loop"]
  /\ UNCHANGED <<mgrVars, nstarts, loopState, pipeVars, idVars, tasks, curTask,
                 ret, arg, startRet, ready, ncalls, peerVars, clockVars, faultVars,
                 textVars, listed>>

\* cleanup, lines 209-212: wait() raised TimeoutExpired and the child is
\* killed.
CleanupGraceExpired ==
  /\ pc["main"] = "cleanup_wait"
  /\ WaitTimedOut(mcp_process)
  /\ signals' = [signals EXCEPT ![mcp_process] = Append(@, "kill")]
  /\ procState' = [procState EXCEPT ![mcp_process] = "exited"]
  /\ pc' = [pc EXCEPT !["main"] = "cleanup_loop"]
  /\ UNCHANGED <<mgrVars, nstarts, loopState, stdin, stdout, idVars, tasks,
                 curTask, ret, arg, startRet, ready, ncalls, peerVars,
                 clockVars, faultVars, textVars, listed>>

\* cleanup, lines 216-229: the loop is asked to stop and the handles and the
\* catalog are cleared.
CleanupFinish ==
  /\ pc["main"] = "cleanup_loop"
  /\ loopState' = IF event_loop /= None
                    THEN [loopState EXCEPT ![event_loop] = "stopped"]
                    ELSE loopState
  /\ mcp_process' = HandleAfterCleanup(mcp_process)
  /\ mcp_client' = HandleAfterCleanup(mcp_client)
  /\ event_loop' = HandleAfterCleanup(event_loop)
  /\ available_tools' = {}
  /\ ready' = FALSE
  /\ pc' = [pc EXCEPT !["main"] = "idle"]
  /\ UNCHANGED <<nstarts, pipeVars, idVars, tasks, curTask, ret, arg, startRet,
                 ncalls, peerVars, clockVars, faultVars, textVars, listed>>

\* cleanup, lines 206 and 213-214: terminate() raises, which is caught and
\* logged; no signal was sent and cleanup() goes on.
CleanupTerminateRaises ==
  /\ pc["main"] = "idle"
  /\ mcp_process /= None
  /\ TerminateDelivers(mcp_process)
  /\ pc' = [pc EXCEPT !["main"] = "cleanup_loop"]
  /\ UNCHANGED <<mgrVars, nstarts, loopState, pipeVars, idVars, tasks, curTask,
                 ret, arg, startRet, ready, ncalls, peerVars, clockVars, faultVars,
                 textVars, listed>>

\* cleanup, lines 209-211: kill() raises inside the handler of TimeoutExpired.
\* No handler encloses it: the exception leaves cleanup(), nothing after line
\* 211 runs. The fault is injected once.
CleanupKillRaises ==
  /\ pc["main"] = "cleanup_wait"
  /\ WaitTimedOut(mcp_process)
  /\ "cleanup" \notin raised
  /\ raised' = raised \cup {"cleanup"}
  /\ pc' = [pc EXCEPT !["main"] = "idle"]
  /\ UNCHANGED <<mgrVars, nstarts, loopState, pipeVars, idVars, tasks, curTask,
                 ret, arg, startRet, ready, ncalls, peerVars, clockVars, pipe,
                 textVars, listed>>

\* cleanup, lines 217-229: call_soon_threadsafe raises, which is caught and
\* logged; the loop keeps running and the handles are cleared.
CleanupStopRaises ==
  /\ pc["main"] = "cleanup_loop"
  /\ event_loop /= None
  /\ mcp_process' = HandleAfterCleanup(mcp_process)
  /\ mcp_client' = HandleAfterCleanup(mcp_client)
  /\ event_loop' = HandleAfterCleanup(event_loop)
  /\ available_tools' = {}
  /\ ready' = FALSE
  /\ pc' = [pc EXCEPT !["main"] = "idle"]
  /\ UNCHANGED <<nstarts, loopState, pipeVars, idVars, tasks, curTask, ret, arg,
                 startRet, ncalls, peerVars, clockVars, faultVars,
                 textVars, listed>>

\* ------------------------------------------------------ specifications

\* call_tool() from the main thread, within the bound of a life cycle.
LifeCall(name) ==
  /\ ncalls < MaxLifeCalls
  /\ CallTool("main", name)

\* call_tool() from the main thread of a manager that is started repeatedly.
RestartCall(name) ==
  /\ ncalls < MaxRestartCalls
  /\ CallTool("main", name)

\* What the manager, its loops and the peer do on their own, whoever calls.
Background ==
  \/ StartSpawn
  \/ StartGrace
  \/ StartInitDone
  \/ StartInitTimeout
  \/ StartDiscDone
  \/ StartDiscTimeout
  \/ CallDone("main")
  \/ CallTimeout("main")
  \/ CleanupWaitDone
  \/ CleanupGraceExpired
  \/ CleanupFinish
  \/ \E i \in DOMAIN tasks : TaskStart(i)
  \/ \E i \in DOMAIN tasks : TaskTimeout(i)
  \/ \E i \in DOMAIN tasks, k \in 0..MaxChunk : ReaderRead(i, k)
  \/ \E p \in Starts : \E j \in DOMAIN stdin[p], kind \in JsonKinds, tools \in SUBSET Tools :
       PeerRespond(p, j, kind, tools)
  \/ \E p \in Starts : PeerDie(p)

\* start() as the application calls it (app.py, initialize_app): once.
AppStart ==
  /\ nstarts = 0
  /\ StartBegin

\* The life cycle of the manager in the application: start() once, then
\* call_tool() and cleanup() in any order from the main thread, against a
\* peer that answers in any order or dies.
Next ==
  \/ AppStart
  \/ \E name \in Names : LifeCall(name)
  \/ CleanupTerminate
  \/ Background

Spec == Init /\ [][Next]_vars

\* The manager used on its own: start() any number of times, with or without
\* a cleanup() in between.
NextRestart ==
  \/ StartBegin
  \/ \E name \in Names : RestartCall(name)
  \/ CleanupTerminate
  \/ Background

SpecRestart == Init /\ [][NextRestart]_vars

\* The life cycle of the manager when the calls cleanup() makes on the child
\* and on the loop may raise.
NextFaults ==
  \/ Next
  \/ CleanupTerminateRaises
  \/ CleanupKillRaises
  \/ CleanupStopRaises

SpecFaults == Init /\ [][NextFaults]_vars

\* A manager on which start() has just returned True: the child runs, the
\* handshake and the discovery were answered, the catalog holds the tool.
ReadyManager ==
  /\ mcp_process = 1
  /\ mcp_client = 1
  /\ event_loop = 1
  /\ available_tools = Tools
  /\ nstarts = 1
  /\ loopState = [n \in Starts |-> IF n = 1 THEN "running" ELSE "none"]
  /\ procState = [n \in Starts |-> IF n = 1 THEN "running" ELSE "none"]
  /\ stdin = [n \in Starts |-> IF n = 1
                THEN <<Request("initialize", 1, ""), InitializedNotification,
                       Request("tools/list", 2, "")>>
                ELSE <<>>]
  /\ stdout = [n \in Starts |-> <<>>]
  /\ signals = [n \in Starts |-> <<>>]
  /\ request_id = [n \in Starts |-> IF n = 1 THEN 2 ELSE 0]
  /\ issued = [n \in Starts |-> IF n = 1 THEN <<1, 2>> ELSE <<>>]
  /\ tasks = << [NewTask("initialize", 1, 1, "", {}) EXCEPT
                   !.st = "done", !.id = 1, !.res = Outcome("true", 1, FALSE, {})],
                [NewTask("tools/list", 1, 1, "", {}) EXCEPT
                   !.st = "done", !.id = 2, !.res = Outcome("tools", 2, FALSE, Tools)] >>
  /\ pc = [t \in Threads |-> "idle"]
  /\ curTask = [t \in Threads |-> 0]
  /\ ret = [t \in Threads |-> NoOutcome]
  /\ arg = [t \in Threads |-> ""]
  /\ startRet = [n \in Starts |-> IF n = 1 THEN "true" ELSE "none"]
  /\ ready = TRUE
  /\ ncalls = 0
  /\ notifs = 0
  /\ answered = {<<1, 1>>, <<1, 2>>}
  /\ raised = {}
  /\ pipe = [n \in Starts |-> "open"]
  /\ now = 0
  /\ elapsed = [n \in CallIds |-> 0]
  /\ age = [i \in TaskIds |-> 0]
  /\ listed = NoListing
  /\ NoText

\* The started manager, every call_tool() on it made without a timeout.
InitReady ==
  /\ ReadyManager
  /\ tmo = [n \in CallIds |-> None]

\* Concurrent callers on a started manager: the main thread and a request
\* handler thread call call_tool() against a peer that answers in any
\* order, emits notifications, or dies.
NextCalls ==
  \/ \E t \in Threads, name \in Names : CallTool(t, name)
  \/ \E t \in Threads : CallDone(t)
  \/ \E t \in Threads : CallTimeout(t)
  \/ \E i \in DOMAIN tasks : TaskStart(i)
  \/ \E i \in DOMAIN tasks : TaskTimeout(i)
  \/ \E i \in DOMAIN tasks, k \in 0..MaxChunk : ReaderRead(i, k)
  \/ \E j \in DOMAIN stdin[1], kind \in JsonKinds :
       PeerRespond(1, j, kind, {})
  \/ PeerNotify(1)
  \/ PeerDie(1)

SpecCalls == InitReady /\ [][NextCalls]_vars

\* The state InitReady describes, as a state of Spec.
ReadyReached == InitReady

\* What the loop of a started manager does on its own.
LoopRuns ==
  \/ \E i \in DOMAIN tasks : TaskStart(i)
  \/ \E i \in DOMAIN tasks : TaskTimeout(i)
  \/ \E i \in DOMAIN tasks, k \in 0..MaxChunk : ReaderRead(i, k)
  \/ \E i \in DOMAIN tasks : WriteBroken(i)

\* What the child of a started manager may do: answer in any order with a
\* result, an error or a malformed line, stop reading, close its pipes, exit.
PeerActs ==
  \/ \E j \in DOMAIN stdin[1], kind \in FrameKinds : PeerRespond(1, j, kind, {})
  \/ PeerStall(1)
  \/ PeerClose(1)
  \/ PeerDie(1)

\* call_tool() from the main thread against a peer that may do anything.
PeerCall(name) ==
  /\ ncalls < MaxPeerCalls
  /\ CallTool("main", name)

\* One caller on a started manager against a peer that may do anything, with
\* cleanup() at any time between calls.
NextPeer ==
  \/ \E name \in Names : PeerCall(name)
  \/ CallDone("main")
  \/ CallTimeout("main")
  \/ CleanupTerminate
  \/ CleanupWaitDone
  \/ CleanupGraceExpired
  \/ CleanupFinish
  \/ LoopRuns
  \/ PeerActs

SpecPeer == InitReady /\ [][NextPeer]_vars

\* ----------------------------------------------------------- the clock

\* _run_async, line 45: timeout = timeout or self._operation_timeout.
EffectiveTimeout(T) == IF T = None THEN OperationTimeout ELSE T

\* call_tool, lines 178-181, and SimpleMCPClient.call_tool, lines 91 and
\* 111-114: the timeout of asyncio.wait_for is the parameter of the client's
\* call_tool, which the manager does not pass, so it is the default.
WaitForTimeout(T) == ClientTimeout

\* The deadline of future.result is due for the main thread.
CallDue ==
  /\ pc["main"] = "call_wait"
  /\ elapsed[ncalls] >= EffectiveTimeout(tmo[ncalls])

\* The deadline of asyncio.wait_for is due for coroutine i.
TaskDue(i) ==
  /\ tasks[i].st = "reading"
  /\ tasks[i].kind = "tools/call"
  /\ age[i] >= WaitForTimeout(tmo[tasks[i].call])

\* Time passes by one unit, unless a deadline is due: timers fire on time.
Tick ==
  /\ now < MaxNow
  /\ ~CallDue
  /\ \A i \in DOMAIN tasks : ~TaskDue(i)
  /\ now' = now + 1
  /\ elapsed' = [n \in CallIds |-> IF n <= ncalls THEN elapsed[n] + 1 ELSE elapsed[n]]
  /\ age' = [i \in TaskIds |->
               IF i \in DOMAIN tasks /\ tasks[i].st = "reading"
                 THEN age[i] + 1 ELSE age[i]]
  /\ UNCHANGED <<mgrVars, nstarts, loopState, pipeVars, idVars, tasks, thrVars,
                 startRet, ready, ncalls, peerVars, faultVars, tmo,
                 textVars, listed>>

\* call_tool() from the main thread while the clock runs.
TimedCall(name) ==
  /\ ncalls < MaxTimedCalls
  /\ CallTool("main", name)

\* future.result(timeout) gives up when its deadline is due.
TimedCallTimeout ==
  /\ CallDue
  /\ CallTimeout("main")

\* asyncio.wait_for gives up when its deadline is due.
TimedTaskTimeout(i) ==
  /\ TaskDue(i)
  /\ TaskTimeout(i)

\* A started manager whose callers pass any of the timeouts.
InitTimed ==
  /\ ReadyManager
  /\ tmo \in [CallIds -> Timeouts]

\* One caller on a started manager with the clock running, against a peer
\* that answers at any time or exits.
NextTimed ==
  \/ \E name \in Names : TimedCall(name)
  \/ CallDone("main")
  \/ TimedCallTimeout
  \/ \E i \in DOMAIN tasks : TaskStart(i)
  \/ \E i \in DOMAIN tasks : TimedTaskTimeout(i)
  \/ \E i \in DOMAIN tasks, k \in 0..MaxChunk : ReaderRead(i, k)
  \/ \E j \in DOMAIN stdin[1], kind \in JsonKinds : PeerRespond(1, j, kind, {})
  \/ PeerDie(1)
  \/ Tick

SpecTimed == InitTimed /\ [][NextTimed]_vars

\* The same, with the scheduling the code relies on: the calling thread runs
\* and its future.result(timeout) timer fires; the loop thread runs its ready
\* callbacks and timers unless a coroutine blocks it. Nothing is assumed of
\* the peer.
SpecPeerLive ==
  /\ SpecPeer
  /\ WF_vars(CallDone("main") \/ CallTimeout("main"))
  /\ WF_vars(LoopRuns)

\* call_tool() from either thread on a manager whose child may stop reading.
WriterCall(t, name) ==
  /\ ncalls < MaxWriterCalls
  /\ CallTool(t, name)

\* Concurrent callers on a started manager whose child answers, stops
\* reading its stdin (a write then blocks the loop thread) or exits.
NextWriters ==
  \/ \E t \in Threads, name \in Tools : WriterCall(t, name)
  \/ \E t \in Threads : CallDone(t)
  \/ \E t \in Threads : CallTimeout(t)
  \/ LoopRuns
  \/ \E j \in DOMAIN stdin[1] : PeerRespond(1, j, "result", {})
  \/ PeerStall(1)
  \/ PeerDie(1)

SpecWriters == InitReady /\ [][NextWriters]_vars

\* ------------------------------------------------- the tool catalog

MaxCatalogCalls == 1  \* call_tool() invocations beside list_tools() and is_healthy()

\* A list_tools() that hands out the catalog itself.
ListToolsShares_alias == TRUE

\* list_tools, line 196: self.available_tools.copy() is a new dictionary.
ListToolsShares == FALSE

\* MCPManager.list_tools(), lines 194-196.
ListTools ==
  /\ pc["main"] = "idle"
  /\ listed' = Listing(available_tools, ListToolsShares)
  /\ UNCHANGED <<mgrVars, nstarts, loopState, pipeVars, idVars, tasks, thrVars,
                 startRet, ready, ncalls, peerVars, clockVars, faultVars, textVars>>

\* The caller of list_tools() changes the dictionary it was given (app.py,
\* lines 121-127, hands it on): the catalog follows only if it is the same
\* object.
CallerEdits(tools) ==
  /\ pc["main"] = "idle"
  /\ listed /= NoListing
  /\ tools /= listed.tools
  /\ listed' = [listed EXCEPT !.tools = tools]
  /\ available_tools' = IF listed.shared THEN tools ELSE available_tools
  /\ UNCHANGED <<mcp_process, mcp_client, event_loop, nstarts, loopState,
                 pipeVars, idVars, tasks, thrVars, startRet, ready, ncalls,
                 peerVars, clockVars, faultVars, textVars>>

\* MCPManager.is_healthy() called on its own (app.py, the health route).
HealthProbe ==
  /\ pc["main"] = "idle"
  /\ ret' = [ret EXCEPT !["main"] =
               Outcome(IF is_healthy THEN "healthy" ELSE "unhealthy", NoFrame, FALSE, {})]
  /\ UNCHANGED <<mgrVars, nstarts, loopState, pipeVars, idVars, tasks, pc,
                 curTask, arg, startRet, ready, ncalls, peerVars, clockVars,
                 faultVars, textVars, listed>>

\* call_tool() from the main thread of a manager whose catalog is read.
CatalogCall(name) ==
  /\ ncalls < MaxCatalogCalls
  /\ CallTool("main", name)

\* A started manager on which call_tool(), list_tools(), is_healthy() and
\* cleanup() are called in any order, against a peer that answers, stops
\* reading or exits.
NextCatalog ==
  \/ \E name \in Names : CatalogCall(name)
  \/ ListTools
  \/ \E name \in Names : CallerEdits(listed.tools \cup {name})
  \/ HealthProbe
  \/ CallDone("main")
  \/ CallTimeout("main")
  \/ CleanupTerminate
  \/ CleanupWaitDone
  \/ CleanupGraceExpired
  \/ CleanupFinish
  \/ LoopRuns
  \/ \E j \in DOMAIN stdin[1], kind \in JsonKinds : PeerRespond(1, j, kind, {})
  \/ PeerStall(1)
  \/ PeerDie(1)

SpecCatalog == InitReady /\ [][NextCatalog]_vars

\* ------------------------------- callers that run while cleanup() runs
\*
\* is_healthy() and call_tool() statement by statement, as a request handler
\* thread executes them while the main thread is inside cleanup(): every
\* read of an attribute of the manager is a step of its own, and so is every
\* assignment of cleanup().

MaxRaceCalls == 2

\* self.mcp_process.poll() on a handle that is None: AttributeError. Nothing
\* in is_healthy() catches it, and call_tool() calls is_healthy() outside its
\* try block (line 168).
AttributeError == Outcome("AttributeError", NoFrame, FALSE, {})

\* What the operation of thread t returns when is_healthy() is False:
\* is_healthy() itself False, call_tool() None (lines 168-170).
Unhealthy(t) ==
  Outcome(IF arg[t] = "" THEN "unhealthy" ELSE "None", NoFrame, FALSE, {})

\* The operation of thread t returns r.
Returns(t, r) ==
  /\ ret' = [ret EXCEPT ![t] = r]
  /\ pc' = [pc EXCEPT ![t] = "idle"]

\* is_healthy() is entered, on its own (name = "") or as the first statement
\* of call_tool(name), and evaluates "self.mcp_process is not None", line 160.
HealthBegin(t, name) ==
  /\ pc[t] = "idle"
  /\ ncalls < MaxRaceCalls
  /\ ncalls' = ncalls + 1
  /\ arg' = [arg EXCEPT ![t] = name]
  /\ IF mcp_process = None
       THEN /\ ret' = [ret EXCEPT ![t] =
                         Outcome(IF name = "" THEN "unhealthy" ELSE "None", NoFrame, FALSE, {})]
            /\ pc' = pc
       ELSE /\ ret' = [ret EXCEPT ![t] = NoOutcome]
            /\ pc' = [pc EXCEPT ![t] = "health_poll"]
  /\ UNCHANGED <<mgrVars, nstarts, loopState, pipeVars, idVars, tasks, curTask,
                 startRet, ready, peerVars, clockVars, faultVars, textVars, listed>>

\* is_healthy, line 161: the attribute is read again and poll() is called on
\* what it holds now.
HealthPoll(t) ==
  /\ pc[t] = "health_poll"
  /\ IF mcp_process = None THEN Returns(t, AttributeError)
     ELSE IF procState[mcp_process] /= "running" THEN Returns(t, Unhealthy(t))
     ELSE /\ pc' = [pc EXCEPT ![t] = "health_client"]
          /\ ret' = ret
  /\ UNCHANGED <<mgrVars, nstarts, loopState, pipeVars, idVars, tasks, curTask,
                 arg, startRet, ready, ncalls, peerVars, clockVars, faultVars,
                 textVars, listed>>

\* is_healthy, line 162: "self.mcp_client is not None".
HealthClient(t) ==
  /\ pc[t] = "health_client"
  /\ IF mcp_client = None THEN Returns(t, Unhealthy(t))
     ELSE /\ pc' = [pc EXCEPT ![t] = "health_loop"]
          /\ ret' = ret
  /\ UNCHANGED <<mgrVars, nstarts, loopState, pipeVars, idVars, tasks, curTask,
                 arg, startRet, ready, ncalls, peerVars, clockVars, faultVars,
                 textVars, listed>>

\* is_healthy, line 163: "self.event_loop is not None"; is_healthy() returns,
\* and call_tool() goes on to its catalog gate.
HealthLoop(t) ==
  /\ pc[t] = "health_loop"
  /\ IF event_loop = None THEN Returns(t, Unhealthy(t))
     ELSE IF arg[t] = "" THEN Returns(t, Outcome("healthy", NoFrame, FALSE, {}))
     ELSE /\ pc' = [pc EXCEPT ![t] = "call_gate"]
          /\ ret' = ret
  /\ UNCHANGED <<mgrVars, nstarts, loopState, pipeVars, idVars, tasks, curTask,
                 arg, startRet, ready, ncalls, peerVars, clockVars, faultVars,
                 textVars, listed>>

\* call_tool, lines 172-174: the catalog gate.
CallGate(t) ==
  /\ pc[t] = "call_gate"
  /\ IF ~ToolAvailable(arg[t])
       THEN Returns(t, Outcome("not_available", NoFrame, FALSE, {}))
       ELSE /\ pc' = [pc EXCEPT ![t] = "call_client"]
            /\ ret' = ret
  /\ UNCHANGED <<mgrVars, nstarts, loopState, pipeVars, idVars, tasks, curTask,
                 arg, startRet, ready, ncalls, peerVars, clockVars, faultVars,
                 textVars, listed>>

\* call_tool, lines 178-179: self.mcp_client.call_tool(...) creates the
\* coroutine object, which is not scheduled yet; on a client that is None the
\* AttributeError is caught at line 190 and becomes the error string.
CallCreate(t) ==
  /\ pc[t] = "call_client"
  /\ IF mcp_client = None
       THEN /\ Returns(t, Outcome("error_calling", NoFrame, FALSE, {}))
            /\ UNCHANGED <<tasks, curTask>>
       ELSE /\ tasks' = Append(tasks,
                          [NewTask("tools/call", event_loop, mcp_client, arg[t], {})
                             EXCEPT !.st = "created", !.call = ncalls])
            /\ curTask' = [curTask EXCEPT ![t] = Len(tasks) + 1]
            /\ pc' = [pc EXCEPT ![t] = "run_check"]
            /\ ret' = ret
  /\ UNCHANGED <<mgrVars, nstarts, loopState, pipeVars, idVars, arg, startRet,
                 ready, ncalls, peerVars, clockVars, faultVars, textVars, listed>>

\* _run_async, lines 41-43: without a loop it returns None, which call_tool
\* turns into the tool-call-failed string.
RunCheck(t) ==
  /\ pc[t] = "run_check"
  /\ IF event_loop = None
       THEN /\ Returns(t, CallFailed)
            /\ curTask' = [curTask EXCEPT ![t] = 0]
       ELSE /\ pc' = [pc EXCEPT ![t] = "run_submit"]
            /\ UNCHANGED <<ret, curTask>>
  /\ UNCHANGED <<mgrVars, nstarts, loopState, pipeVars, idVars, tasks, arg,
                 startRet, ready, ncalls, peerVars, clockVars, faultVars,
                 textVars, listed>>

\* _run_async, lines 47-52: the attribute is read again for
\* run_coroutine_threadsafe; on None the call raises inside the try block,
\* which returns None.
RunSubmit(t) ==
  /\ pc[t] = "run_submit"
  /\ IF event_loop = None
       THEN /\ Returns(t, CallFailed)
            /\ curTask' = [curTask EXCEPT ![t] = 0]
            /\ tasks' = tasks
       ELSE /\ tasks' = [tasks EXCEPT ![curTask[t]].st = "scheduled",
                                      ![curTask[t]].loop = event_loop]
            /\ pc' = [pc EXCEPT ![t] = "call_wait"]
            /\ UNCHANGED <<ret, curTask>>
  /\ UNCHANGED <<mgrVars, nstarts, loopState, pipeVars, idVars, arg, startRet,
                 ready, ncalls, peerVars, clockVars, faultVars, textVars, listed>>

\* cleanup, lines 217-223: the loop is asked to stop.
CleanupStop ==
  /\ pc["main"] = "cleanup_loop"
  /\ loopState' = IF event_loop /= None
                    THEN [loopState EXCEPT ![event_loop] = "stopped"]
                    ELSE loopState
  /\ pc' = [pc EXCEPT !["main"] = "clear_process"]
  /\ UNCHANGED <<mgrVars, nstarts, pipeVars, idVars, tasks, curTask, ret, arg,
                 startRet, ready, ncalls, peerVars, clockVars, faultVars,
                 textVars, listed>>

\* cleanup, line 226: self.mcp_process = None
ClearProcess ==
  /\ pc["main"] = "clear_process"
  /\ mcp_process' = HandleAfterCleanup(mcp_process)
  /\ pc' = [pc EXCEPT !["main"] = "clear_client"]
  /\ UNCHANGED <<mcp_client, event_loop, available_tools, nstarts, loopState,
                 pipeVars, idVars, tasks, curTask, ret, arg, startRet, ready,
                 ncalls, peerVars, clockVars, faultVars, textVars, listed>>

\* cleanup, line 227: self.mcp_client = None
ClearClient ==
  /\ pc["main"] = "clear_client"
  /\ mcp_client' = HandleAfterCleanup(mcp_client)
  /\ pc' = [pc EXCEPT !["main"] = "clear_loop"]
  /\ UNCHANGED <<mcp_process, event_loop, available_tools, nstarts, loopState,
                 pipeVars, idVars, tasks, curTask, ret, arg, startRet, ready,
                 ncalls, peerVars, clockVars, faultVars, textVars, listed>>

\* cleanup, lines 228-229: self.event_loop = None, self.available_tools = {}
ClearLoop ==
  /\ pc["main"] = "clear_loop"
  /\ event_loop' = HandleAfterCleanup(event_loop)
  /\ pc' = [pc EXCEPT !["main"] = "clear_tools"]
  /\ UNCHANGED <<mcp_process, mcp_client, available_tools, nstarts, loopState,
                 pipeVars, idVars, tasks, curTask, ret, arg, startRet, ready,
                 ncalls, peerVars, clockVars, faultVars, textVars, listed>>

ClearTools ==
  /\ pc["main"] = "clear_tools"
  /\ available_tools' = {}
  /\ ready' = FALSE
  /\ pc' = [pc EXCEPT !["main"] = "idle"]
  /\ UNCHANGED <<mcp_process, mcp_client, event_loop, nstarts, loopState,
                 pipeVars, idVars, tasks, curTask, ret, arg, startRet,
                 ncalls, peerVars, clockVars, faultVars, textVars, listed>>

\* A started manager: a request handler thread calls is_healthy() and
\* call_tool() while the main thread runs cleanup(), against a peer that
\* answers or exits.
NextRace ==
  \/ \E name \in Names \cup {""} : HealthBegin("w1", name)
  \/ HealthPoll("w1")
  \/ HealthClient("w1")
  \/ HealthLoop("w1")
  \/ CallGate("w1")
  \/ CallCreate("w1")
  \/ RunCheck("w1")
  \/ RunSubmit("w1")
  \/ CallDone("w1")
  \/ CallTimeout("w1")
  \/ CleanupTerminate
  \/ CleanupWaitDone
  \/ CleanupGraceExpired
  \/ CleanupStop
  \/ ClearProcess
  \/ ClearClient
  \/ ClearLoop
  \/ ClearTools
  \/ \E i \in DOMAIN tasks : TaskStart(i)
  \/ \E i \in DOMAIN tasks, k \in 0..MaxChunk : ReaderRead(i, k)
  \/ \E j \in DOMAIN stdin[1] : PeerRespond(1, j, "result", {})
  \/ PeerDie(1)

SpecRace == InitReady /\ [][NextRace]_vars

\* ------------------------------------------ the text read from the peer
\*
\* Texts are sequences of characters. "{" and "}" delimit a JSON object, "r"
\* stands for a result member of it and "e" for an error member; "x" is a
\* character of text that is not JSON.

BufferCap == 4     \* the cap of 10000 characters of line 193, on the scale of these texts
MaxPieces == 3     \* pieces of text the peer writes to its stdout
MaxRead == 8       \* characters one stdout.read(1024) returns at most
MaxReads == 3      \* successive calls of _read_complete_response

LF == "\n"
SP == " "

\* The pieces of text a peer writes: a result response line, an error
\* response line, a diagnostic line, text without a newline, blanks.
Pieces ==
  { <<"{", "r", "}", LF>>, <<"{", "e", "}", LF>>, <<"x", LF>>, <<"x", "x">>, <<SP, SP>> }

RECURSIVE Flatten(_)
Flatten(q) == IF q = <<>> THEN <<>> ELSE Head(q) \o Flatten(Tail(q))

\* What the peer may write in all.
Streams == {Flatten(q) : q \in UNION {[1..n -> Pieces] : n \in 0..MaxPieces}}

\* Every variable of the manager, its loops, its children and the clock.
processVars == <<mgrVars, nstarts, loopState, pipeVars, idVars, tasks, thrVars,
                 startRet, ready, ncalls, peerVars, clockVars, faultVars, listed>>

\* str.strip(): the text without its leading and trailing whitespace.
IsSpace(c) == c \in {SP, LF}

RECURSIVE LStrip(_)
LStrip(s) == IF s /= <<>> /\ IsSpace(Head(s)) THEN LStrip(Tail(s)) ELSE s

RECURSIVE RStrip(_)
RStrip(s) ==
  IF s /= <<>> /\ IsSpace(s[Len(s)]) THEN RStrip(SubSeq(s, 1, Len(s) - 1)) ELSE s

Strip(s) == RStrip(LStrip(s))

\* str.split('\n'), line 182: the segments between the newlines; there is
\* always at least one, and the last is what follows the last newline.
RECURSIVE Split(_)
Split(s) ==
  IF \A i \in DOMAIN s : s[i] /= LF
    THEN <<s>>
    ELSE LET i == CHOOSE n \in DOMAIN s : s[n] = LF /\ \A m \in 1..(n - 1) : s[m] /= LF
         IN <<SubSeq(s, 1, i - 1)>> \o Split(SubSeq(s, i + 1, Len(s)))

\* An _is_complete_json that accepts every text.
IsCompleteJson_any(t) == TRUE

\* _is_complete_json, lines 203-209: json.loads accepts the text. Of the
\* texts of the model it accepts the objects: a "{", members and blanks, a "}".
IsCompleteJson(t) ==
  LET u == Strip(t)
  IN /\ Len(u) >= 2
     /\ u[1] = "{"
     /\ u[Len(u)] = "}"
     /\ \A i \in 2..(Len(u) - 1) : u[i] \in {"r", "e", SP}

\* Lines 183-187: the segments of the buffer that, stripped, are not empty
\* and parse as JSON.
CompleteLines(lines) ==
  {i \in DOMAIN lines : Strip(lines[i]) /= <<>> /\ IsCompleteJson(Strip(lines[i]))}

\* SimpleMCPClient.call_tool, lines 119-139, on the text the read returned:
\* the error of a response that has one, the value of its result otherwise,
\* and the stripped text itself when json.loads rejects it.
ClientReturn(text) ==
  LET t == Strip(text)
  IN IF ~IsCompleteJson(t) THEN [k |-> "raw", text |-> t]
     ELSE IF \E i \in DOMAIN t : t[i] = "e" THEN [k |-> "server_error", text |-> t]
     ELSE [k |-> "value", text |-> t]

\* SimpleMCPClient.initialize, lines 233-246, once the read has returned in
\* the way why: the text is printed and not looked at, the notification is
\* written and True is returned; only on a child that has exited does the
\* write raise, which makes initialize return False (lines 252-254).
InitializeReturn(why) == why /= "exited"

\* _read_complete_response returns: the text, the way the loop was left
\* ("line" at line 187, "exited" at 169, "eof" at 176, "overflow" at 195),
\* what call_tool makes of the text, and whether initialize would write the
\* notification and return True.
ReadReturns(text, why) ==
  /\ reads' = Append(reads, [text |-> text, why |-> why, ret |-> ClientReturn(text),
                             init |-> InitializeReturn(why)])
  /\ reading' = FALSE
  /\ buffer' = <<>>

\* _read_complete_response is called, line 162: the buffer is a new local.
ReadBegin ==
  /\ ~reading
  /\ Len(reads) < MaxReads
  /\ reading' = TRUE
  /\ buffer' = <<>>
  /\ UNCHANGED <<processVars, sent, wire, wireEnd, reads, response, returned>>

\* One pass of the loop in which stdout.read(1024) returns k characters,
\* lines 167-195: the chunk is appended, the first segment that parses is
\* returned, and otherwise the last segment is kept, unless it is longer
\* than the cap.
ReadChunk(k) ==
  LET buf == buffer \o SubSeq(wire, 1, k)
      lines == Split(buf)
      hits == CompleteLines(lines)
      rest == lines[Len(lines)]
  IN /\ reading
     /\ wireEnd /= "exited"
     /\ k \in 1..MaxRead
     /\ k <= Len(wire)
     /\ wire' = Drop(wire, k)
     /\ IF hits /= {}
          THEN ReadReturns(Strip(lines[CHOOSE i \in hits : \A j \in hits : i <= j]), "line")
          ELSE IF Len(rest) > BufferCap
          THEN ReadReturns(Strip(rest), "overflow")
          ELSE /\ buffer' = rest
               /\ UNCHANGED <<reading, reads>>
     /\ UNCHANGED <<processVars, sent, wireEnd, response, returned>>

\* A pass in which stdout.read returns no data, lines 174-176 and 201: the
\* peer closed its stdout and everything it wrote was read.
ReadEof ==
  /\ reading
  /\ wireEnd = "closed"
  /\ wire = <<>>
  /\ ReadReturns(Strip(buffer), "eof")
  /\ UNCHANGED <<processVars, sent, wire, wireEnd, response, returned>>

\* A pass that finds the child exited, lines 167-169 and 201.
ReadExited ==
  /\ reading
  /\ wireEnd = "exited"
  /\ ReadReturns(Strip(buffer), "exited")
  /\ UNCHANGED <<processVars, sent, wire, wireEnd, response, returned>>

\* The peer exits.
WireExit ==
  /\ wireEnd /= "exited"
  /\ wireEnd' = "exited"
  /\ UNCHANGED <<processVars, sent, wire, buffer, reading, reads, response, returned>>

\* The peer has written a stream and keeps its stdout open or closes it.
InitFraming ==
  /\ FreshManager
  /\ sent \in Streams
  /\ wire = sent
  /\ wireEnd \in {"open", "closed"}
  /\ buffer = <<>>
  /\ reading = FALSE
  /\ reads = <<>>
  /\ response = NoResponse
  /\ returned = <<>>

\* Successive reads of what a peer wrote, the chunks being of any size.
NextFraming ==
  \/ ReadBegin
  \/ \E k \in 1..MaxRead : ReadChunk(k)
  \/ ReadEof
  \/ ReadExited
  \/ WireExit

SpecFraming == InitFraming /\ [][NextFraming]_vars

\* --------------------------------------------- the value of a response
\*
\* What json.loads returns: a JSON value is a string, an array of values or
\* an object, which is a sequence of <<key, value>> members.

MaxList == 2       \* elements of a JSON array

Str(s) == [t |-> "str", v |-> s]
Arr(items) == [t |-> "list", v |-> items]
Obj(members) == [t |-> "dict", v |-> members]

\* key in obj
Has(obj, key) == \E i \in DOMAIN obj.v : obj.v[i][1] = key

\* obj.get(key, default)
Get(obj, key, default) ==
  IF Has(obj, key)
    THEN obj.v[CHOOSE i \in DOMAIN obj.v : obj.v[i][1] = key][2]
    ELSE default

\* "\n".join(texts), and ", ".join(texts)
RECURSIVE Join(_, _)
Join(sep, texts) ==
  IF texts = <<>> THEN ""
  ELSE IF Len(texts) = 1 THEN texts[1]
  ELSE texts[1] \o sep \o Join(sep, Tail(texts))

\* repr() of a value, which str() of an array or of an object is made of.
RECURSIVE PyRepr(_)
PyRepr(v) ==
  CASE v.t = "str" -> "'" \o v.v \o "'"
    [] v.t = "list" -> "[" \o Join(", ", [i \in DOMAIN v.v |-> PyRepr(v.v[i])]) \o "]"
    [] OTHER -> "{" \o Join(", ", [i \in DOMAIN v.v |->
                         "'" \o v.v[i][1] \o "': " \o PyRepr(v.v[i][2])]) \o "}"

\* str() of a value.
PyStr(v) == IF v.t = "str" THEN v.v ELSE PyRepr(v)

\* The cross mark (U+274C) that begins the failure strings of the client.
FailureMark == "(x)"

Atoms == {Str("a"), Str("b")}

\* The elements of a content array: strings, objects with a text member,
\* objects without one.
Elements ==
  Atoms \cup {Obj(<< <<"text", a>> >>) : a \in Atoms}
        \cup {Obj(<< <<"other", Str("a")>> >>)}

Arrays == {Arr(q) : q \in UNION {[1..n -> Elements] : n \in 0..MaxList}}

\* The objects a result may be: with or without a content member, a text
\* member, another member.
Members(key, values) == {<<>>} \cup {<< <<key, x>> >> : x \in values}

ResultObjects ==
  {Obj(c \o t \o o) :
     c \in Members("content", Atoms \cup Arrays \cup {Obj(<< <<"other", Str("a")>> >>)}),
     t \in Members("text", Atoms \cup {Arr(<<Str("a")>>)}),
     o \in Members("other", {Str("a")})}

\* The responses: objects with or without a result member, with or without
\* an error member.
Responses ==
  [error : {Absent, Str("boom"), Obj(<< <<"code", Str("a")>> >>)},
   result : {Absent, Str("plain"), Arr(<<Str("a")>>)} \cup ResultObjects]

\* An error test that a result member switches off.
HasError_unlessResult(resp) == resp.error.t /= "absent" /\ resp.result.t = "absent"

\* call_tool, line 121: "error" in response.
HasError(resp) == resp.error.t /= "absent"

\* A resolution that looks for text before content.
ResolveContent_textFirst(result) ==
  Get(result, "text", Get(result, "content", Str(PyStr(result))))

\* call_tool, line 129: result.get("content", result.get("text", str(result))).
ResolveContent(result) ==
  Get(result, "content", Get(result, "text", Str(PyStr(result))))

\* call_tool, line 132: the text of one element of a content array.
ItemText(item) ==
  IF item.t = "dict" THEN PyStr(Get(item, "text", item)) ELSE PyStr(item)

\* call_tool, lines 120-135, on the object json.loads returned.
CallToolText(resp) ==
  IF HasError(resp)
    THEN FailureMark \o " Server error: " \o PyStr(resp.error)
    ELSE LET result == IF resp.result.t = "absent" THEN Str("") ELSE resp.result
         IN IF result.t = "dict"
              THEN LET content == ResolveContent(result)
                   IN IF content.t = "list"
                        THEN Join(LF, [i \in DOMAIN content.v |-> ItemText(content.v[i])])
                        ELSE PyStr(content)
              ELSE PyStr(result)

\* call_tool parses a response and returns.
CallToolParse ==
  /\ returned = <<>>
  /\ returned' = <<CallToolText(response)>>
  /\ UNCHANGED <<processVars, sent, wire, wireEnd, buffer, reading, reads, response>>

\* A response line has been read and parsed into any of the responses.
InitUnwrap ==
  /\ FreshManager
  /\ sent = <<>>
  /\ wire = <<>>
  /\ wireEnd = "open"
  /\ buffer = <<>>
  /\ reading = FALSE
  /\ reads = <<>>
  /\ response \in Responses
  /\ returned = <<>>

NextUnwrap == CallToolParse

SpecUnwrap == InitUnwrap /\ [][NextUnwrap]_vars

\* ------------------------------------------- the result of discovery

\* A tool descriptor, with or without its name member.
Descriptor(name, text) ==
  Obj(<< <<"name", Str(name)>>, <<"description", Str(text)>> >>)

Descriptors ==
  {Descriptor(n, d) : n \in Names, d \in {"d1", "d2"}}
    \cup {Obj(<< <<"description", Str("d1")>> >>)}

ToolLists == {Arr(q) : q \in UNION {[1..n -> Descriptors] : n \in 0..MaxList}}

\* The responses to tools/list: with or without an error member; without a
\* result, with a result that is no object, with an object with or without
\* a tools member.
ListResponses ==
  [error : {Absent, Str("boom")},
   result : {Absent, Str("plain"), Obj(<<>>)}
              \cup {Obj(<< <<"tools", l>> >>) : l \in ToolLists}]

\* list_tools, line 51: {tool["name"]: tool for tool in tools}, a later
\* descriptor replacing an earlier one of the same name.
RECURSIVE Rekey(_)
Rekey(tools) ==
  IF tools = <<>> THEN <<>>
  ELSE LET last == tools[Len(tools)]
       IN (Get(last, "name", Absent).v :> last) @@ Rekey(SubSeq(tools, 1, Len(tools) - 1))

\* SimpleMCPClient.list_tools, lines 45-58, on the object json.loads
\* returned: the empty mapping for an error response and for whatever
\* raises (a result that is no object, a descriptor without a name).
ClientListTools(resp) ==
  IF HasError(resp) THEN <<>>
  ELSE LET result == IF resp.result.t = "absent" THEN Obj(<<>>) ELSE resp.result
       IN IF result.t /= "dict" THEN <<>>
          ELSE LET tools == Get(result, "tools", Arr(<<>>))
               IN IF tools.t /= "list" THEN <<>>
                  ELSE IF \E i \in DOMAIN tools.v : ~Has(tools.v[i], "name") THEN <<>>
                  ELSE Rekey(tools.v)

\* _discover_tools, lines 145-151: "if tools:" is false for the empty
\* mapping, which is logged as "No tools discovered" and returns False.
DiscoverSucceeded(tools) == tools /= {}

\* list_tools parses the response and returns the mapping.
ListToolsParse ==
  /\ returned = <<>>
  /\ returned' = <<ClientListTools(response)>>
  /\ UNCHANGED <<processVars, sent, wire, wireEnd, buffer, reading, reads, response>>

\* _discover_tools receives the mapping, lines 143-151.
DiscoverStep ==
  /\ Len(returned) = 1
  /\ available_tools' = DiscoverTools(DOMAIN returned[1])
  /\ returned' = Append(returned, DiscoverSucceeded(DOMAIN returned[1]))
  /\ UNCHANGED <<mcp_process, mcp_client, event_loop, nstarts, loopState,
                 pipeVars, idVars, tasks, thrVars, startRet, ready, ncalls,
                 peerVars, clockVars, faultVars, listed,
                 sent, wire, wireEnd, buffer, reading, reads, response>>

\* The response line of a tools/list request has been read and parsed.
InitDiscovery ==
  /\ FreshManager
  /\ sent = <<>>
  /\ wire = <<>>
  /\ wireEnd = "open"
  /\ buffer = <<>>
  /\ reading = FALSE
  /\ reads = <<>>
  /\ response \in ListResponses
  /\ returned = <<>>

NextDiscovery ==
  \/ ListToolsParse
  \/ DiscoverStep

SpecDiscovery == InitDiscovery /\ [][NextDiscovery]_vars

\* ------------------------------------------------------- the web routes

\* Texts are sequences of characters here. Cross is the one character
\* U+274C that the manager and the client put in front of a failure text
\* (mcp_manager.py lines 174, 185, 192; the client, lines 124, 143, 156, 158).
Cross == "U+274C"
ClientMark == <<Cross>>

\* The literal app.py tests in summarize, line 96: the three characters
\* U+201A U+00F9 U+00E5, not the cross.
AppMark == <<"U+201A", "U+00F9", "U+00E5">>

\* The literal web_server.py tests in summarize, line 164: the cross.
WebMark == <<Cross>>

\* str.startswith
StartsWith(s, prefix) ==
  Len(s) >= Len(prefix) /\ SubSeq(s, 1, Len(prefix)) = prefix

PyNone == [t |-> "none", v |-> <<>>]

\* What call_tool can hand to a route: None, a tool's text (empty, plain,
\* beginning with the characters of AppMark, or with a cross inside), and
\* the failure texts.
ToolTexts ==
  { <<>>, <<"p", "o", "n", "g">>, AppMark \o <<" ", "o", "k">>, <<"n", "o", " ", Cross>>,
    ClientMark \o <<" ", "T", "o", "o", "l", " ", "c", "a", "l", "l", " ",
                    "f", "a", "i", "l", "e", "d">>,
    ClientMark \o <<" ", "T", "i", "m", "e", "o", "u", "t">> }
CallToolReturns == {PyNone} \cup {Str(x) : x \in ToolTexts}

Servers == {"app", "web_server"}
Routes == {"/summarize", "/ping", "/search", "/summaries"}

\* A request to a route: whether the manager is healthy at the gate, whether
\* the body carries the url or keyword, and what call_tool returns if it is
\* reached.
RouteRequests ==
  [server : Servers, route : Routes, healthy : BOOLEAN, input : BOOLEAN,
   result : CallToolReturns]

\* jsonify({key: body}), status
Envelope(key, status, body) == [key |-> key, status |-> status, body |-> body]
Message(m) == Str(<<m>>)

\* The literal each summarize route tests the result against.
RouteMark(server) == IF server = "app" THEN AppMark ELSE WebMark

\* summarize, app.py lines 70-105 and web_server.py lines 138-173.
Summarize(q) ==
  IF ~q.healthy THEN Envelope("error", "500", Message("MCP server not available"))
  ELSE IF ~q.input THEN Envelope("error", "400", Message("URL is required"))
  ELSE IF q.result = PyNone
    THEN Envelope("error", "500", Message("Failed to get response from MCP server"))
  ELSE IF StartsWith(q.result.v, RouteMark(q.server))
    THEN Envelope("error", "500", q.result)
  ELSE Envelope("result", "200", q.result)

\* ping, search_summaries and get_all_summaries, app.py lines 107-118 and
\* 143-175, web_server.py lines 175-187 and 215-250: whatever call_tool
\* returned goes into the result envelope.
PassThrough(q, needsInput) ==
  IF ~q.healthy THEN Envelope("error", "500", Message("MCP server not available"))
  ELSE IF needsInput /\ ~q.input THEN Envelope("error", "400", Message("Keyword is required"))
  ELSE Envelope("result", "200", q.result)

Route(q) ==
  CASE q.route = "/summarize" -> Summarize(q)
    [] q.route = "/search" -> PassThrough(q, TRUE)
    [] OTHER -> PassThrough(q, FALSE)

\* A route answers its request.
RouteAnswers ==
  /\ returned = <<>>
  /\ returned' = <<Route(response)>>
  /\ UNCHANGED <<processVars, sent, wire, wireEnd, buffer, reading, reads, response>>

InitRoutes ==
  /\ FreshManager
  /\ sent = <<>>
  /\ wire = <<>>
  /\ wireEnd = "open"
  /\ buffer = <<>>
  /\ reading = FALSE
  /\ reads = <<>>
  /\ response \in RouteRequests
  /\ returned = <<>>

NextRoutes == RouteAnswers

SpecRoutes == InitRoutes /\ [][NextRoutes]_vars

\* ------------------------------------------------------------- claims

CallTasks == {j \in DOMAIN tasks : tasks[j].kind = "tools/call"}

\* The request of task j is on the wire of its child.
Written(j) ==
  \E m \in DOMAIN stdin[tasks[j].client] :
    /\ stdin[tasks[j].client][m].id = tasks[j].id
    /\ stdin[tasks[j].client][m].method = tasks[j].kind

\* The call of task j ran into a timeout, at wait_for or at _run_async.
TimedOut(j) == tasks[j].timedOut \/ tasks[j].abandoned

\* C1 (stale-response isolation): when the call with request id K has timed
\* out, the peer wrote its response to K after that, and the next call, with
\* request id K+1 on the same session, was issued after the timeout, that
\* call never returns a value computed from the response to K.
C1_StaleResponseIsolation ==
  \A i \in CallTasks, j \in CallTasks :
    ( /\ tasks[i].client = tasks[j].client
      /\ tasks[i].id /= NoId
      /\ tasks[j].id = tasks[i].id + 1
      /\ TimedOut(i)
      /\ tasks[i].id \in tasks[j].stale
      /\ tasks[j].st = "done" )
    => ~(tasks[j].res.late /\ tasks[j].res.src = tasks[i].id)

\* C2 (response correlation by id): the value a request returns to its caller
\* is computed only from a frame whose id equals the id of the request, never
\* from a frame with another id or with no id.
C2_CorrelatedById ==
  \A j \in DOMAIN tasks :
    (tasks[j].st = "done" /\ tasks[j].res.src /= NoFrame)
    => tasks[j].res.src = tasks[j].id

\* A tools/call request that is written to the child and neither answered nor
\* timed out.
Outstanding(j) ==
  /\ tasks[j].kind = "tools/call"
  /\ tasks[j].st = "reading"
  /\ Written(j)
  /\ <<tasks[j].client, tasks[j].id>> \notin answered
  /\ ~TimedOut(j)

\* C3 (serialization of concurrent callers): on a healthy manager at most one
\* tools/call request is outstanding on the child at any moment.
C3_OneOutstandingCall ==
  is_healthy => Cardinality({j \in DOMAIN tasks : Outstanding(j)}) <= 1

\* C4 (id monotonicity): on every session the ids handed out are 1, 2, ..., N
\* in creation order, the requests on the wire carry strictly increasing ids,
\* and the notifications/initialized message carries no id and consumes none.
C4_IdMonotonic ==
  \A c \in Starts :
    /\ \A i \in DOMAIN issued[c] : issued[c][i] = i
    /\ \A m \in DOMAIN stdin[c], n \in DOMAIN stdin[c] :
         (m < n /\ stdin[c][m].id /= NoId /\ stdin[c][n].id /= NoId)
         => stdin[c][m].id < stdin[c][n].id
    /\ \A m \in DOMAIN stdin[c] :
         /\ (stdin[c][m].method = "notifications/initialized") = (stdin[c][m].id = NoId)
         /\ stdin[c][m].id /= NoId => stdin[c][m].id \in 1..Len(issued[c])

\* A session that issued initialize, tools/list and a tools/call, sent its
\* notification, and issued a request the child never received.
C4_Witness ==
  \E c \in Starts :
    /\ Len(issued[c]) >= 3
    /\ \E m \in DOMAIN stdin[c] : stdin[c][m].method = "notifications/initialized"
    /\ \E m \in DOMAIN stdin[c] : stdin[c][m].method = "tools/call"

\* The manager is not healthy: never started, child exited, or cleaned up.
NotHealthyState ==
  \/ mcp_process = None
  \/ procState[mcp_process] /= "running"
  \/ mcp_client = None
  \/ event_loop = None

\* C5 (health gating): call_tool() entered on a manager that is not healthy
\* returns None, writes nothing to any child's stdin, reads nothing from any
\* stdout, submits no coroutine and consumes no request id, whatever the name.
C5_HealthGating ==
  [][ (ncalls' = ncalls + 1 /\ NotHealthyState)
      => /\ ret'["main"].k = "None"
         /\ pc'["main"] = "idle"
         /\ stdin' = stdin
         /\ stdout' = stdout
         /\ tasks' = tasks
         /\ request_id' = request_id ]_vars

\* call_tool() returned None for a name of the cached catalog, on a manager
\* whose child has exited after a successful start().
C5_Witness ==
  /\ ret["main"].k = "None"
  /\ arg["main"] \in available_tools
  /\ mcp_process /= None
  /\ procState[mcp_process] = "exited"
  /\ startRet[mcp_process] = "true"

\* C6 (unknown-tool rejection): call_tool() entered on a healthy manager with
\* a name absent from the catalog returns the tool-not-available string,
\* writes no request, submits no coroutine and leaves request_id unchanged.
C6_UnknownToolRejected ==
  [][ (ncalls' = ncalls + 1 /\ ~NotHealthyState /\ arg'["main"] \notin available_tools)
      => /\ ret'["main"].k = "not_available"
         /\ pc'["main"] = "idle"
         /\ stdin' = stdin
         /\ tasks' = tasks
         /\ request_id' = request_id ]_vars

\* call_tool() returned tool-not-available on a healthy manager whose catalog
\* holds another tool.
C6_Witness ==
  /\ ret["main"].k = "not_available"
  /\ arg["main"] \notin available_tools
  /\ available_tools /= {}
  /\ ~NotHealthyState

\* Termination of child n was attempted: a signal was sent to it, or it had
\* already exited (terminating an exited child is a no-op).
TerminationAttempted(n) == signals[n] /= <<>> \/ procState[n] = "exited"

\* C7 (no orphan on failed start): whenever start() returned False after the
\* child was spawned, termination of that child has been attempted.
C7_NoOrphanOnFailedStart ==
  \A n \in Starts :
    (startRet[n] = "false" /\ procState[n] /= "none") => TerminationAttempted(n)

\* C8 (failed start leaves the manager Terminated): after start() returned
\* False, is_healthy() returns False.
C8_FailedStartTerminated ==
  (nstarts >= 1 /\ startRet[nstarts] = "false") => ~is_healthy

\* The coroutines start() number n submitted.
InitTaskOf(n) == {j \in DOMAIN tasks : tasks[j].kind = "initialize" /\ tasks[j].client = n}
ListTaskOf(n) == {j \in DOMAIN tasks : tasks[j].kind = "tools/list" /\ tasks[j].client = n}

\* initialize() of start() number n returned True to the manager.
HandshakeOk(n) ==
  \E j \in InitTaskOf(n) :
    tasks[j].st = "done" /\ tasks[j].res.k = "true" /\ ~tasks[j].abandoned

\* The discovery call of start() number n succeeded: list_tools() returned the
\* catalog of a result frame to the manager.
DiscoveryOk(n) ==
  \E j \in ListTaskOf(n) :
    tasks[j].st = "done" /\ tasks[j].res.k = "tools" /\ ~tasks[j].abandoned

C10_HealthyIffReady ==
  pc["main"] = "idle" =>
    (is_healthy <=>
       ( /\ ready
         /\ mcp_process /= None
         /\ procState[mcp_process] = "running"
         /\ event_loop /= None
         /\ loopState[event_loop] = "running" ))

\* The values call_tool() hands to its caller: None, or one of its strings.
ReturnKinds ==
  {"None", "not_available", "failed", "error_calling", "result", "error",
   "timeout", "died", "empty"}

\* C11 (no exception reaches the caller of call_tool): whatever the state of
\* the manager and whatever the peer does, what call_tool() hands back is None
\* or a string, never an exception.
C11_NeverRaises ==
  \A t \in Threads : ret[t] /= NoOutcome => ret[t].k \in ReturnKinds

\* call_tool() returned the tool-call-failed string after future.result gave
\* up on a child that runs, reads its stdin and never answered.
C11_Witness ==
  /\ ret["main"].k = "failed"
  /\ procState[1] = "running"
  /\ pipe[1] = "open"
  /\ \E i \in CallTasks : tasks[i].abandoned /\ tasks[i].st = "reading"

\* C12 (no indefinite blocking): every call_tool() that waits for its
\* coroutine returns to its calling thread, whatever the peer does.
C12_CallReturns == (pc["main"] = "call_wait") ~> (pc["main"] = "idle")

\* call_tool() returned while its coroutine blocks the loop thread in the
\* write to a child that stopped reading its stdin.
C12_Witness ==
  /\ pc["main"] = "idle"
  /\ ret["main"].k = "failed"
  /\ \E i \in CallTasks : tasks[i].abandoned /\ tasks[i].st = "writing"

\* C14 (process death is surfaced distinctly): a tools/call whose request was
\* written and whose wait ended because the child exited, with no frame read
\* and no timeout, returns the peer-died indication.
C14_DeathSurfaced ==
  \A j \in CallTasks :
    ( /\ tasks[j].st = "done"
      /\ Written(j)
      /\ procState[tasks[j].client] = "exited"
      /\ pipe[tasks[j].client] = "open"
      /\ ~tasks[j].timedOut
      /\ tasks[j].res.src = NoFrame )
    => tasks[j].res.k = "died"

\* The peer writes, in this step, its answer to the request of coroutine j.
AnswersNow(j) ==
  /\ <<tasks[j].client, tasks[j].id>> \notin answered
  /\ <<tasks[j].client, tasks[j].id>> \in answered'

\* C13 (the caller's timeout is the deadline): when the peer answers the
\* request of call_tool(name, args, timeout=T) before T has elapsed since the
\* call was entered, the call is still waiting for that answer.
C13_CallerTimeoutIsDeadline ==
  [][ \A j \in CallTasks :
        (AnswersNow(j) /\ elapsed[tasks[j].call] < EffectiveTimeout(tmo[tasks[j].call]))
        => /\ pc["main"] = "call_wait"
           /\ curTask["main"] = j
           /\ tasks[j].st = "reading" ]_vars

\* The manager is Terminated: no handle is held and the catalog is empty.
Terminated ==
  /\ mcp_process = None
  /\ mcp_client = None
  /\ event_loop = None
  /\ available_tools = {}

\* The main thread enters cleanup() in this step.
CleanupBegins == pc["main"] = "idle" /\ pc'["main"] \in {"cleanup_wait", "cleanup_loop"}

\* The main thread leaves cleanup() in this step.
CleanupEnds == pc["main"] \in {"cleanup_wait", "cleanup_loop"} /\ pc'["main"] = "idle"

\* C15 (idempotent cleanup): every cleanup() leaves the manager Terminated
\* and not healthy; a cleanup() entered on the manager an earlier cleanup()
\* left Terminated sends no signal, changes no process, stops no loop,
\* raises nothing and leaves the manager Terminated again.
C15_IdempotentCleanup ==
  [][ /\ CleanupEnds => (Terminated' /\ mcp_process' = None /\ raised' = raised)
      /\ (CleanupBegins /\ Terminated /\ nstarts >= 1)
           => /\ signals' = signals
              /\ procState' = procState
              /\ pc'["main"] = "cleanup_loop"
      /\ (CleanupEnds /\ Terminated /\ nstarts >= 1)
           => /\ signals' = signals
              /\ procState' = procState
              /\ loopState' = loopState ]_vars

\* The second of two cleanup() calls in a row is past its terminate step: the
\* manager is already Terminated, the child got its signal from the first.
C15_Witness ==
  /\ pc["main"] = "cleanup_loop"
  /\ Terminated
  /\ nstarts >= 1
  /\ signals[1] /= <<>>

\* C16 (cleanup always completes): every cleanup() that was entered returns
\* normally and leaves the handles cleared and the catalog empty, whichever
\* of its calls on the child or on the loop raises.
C16_CleanupCompletes ==
  [][ CleanupEnds => (raised' = raised /\ Terminated') ]_vars

\* C17 (graceful, then forced): cleanup() on a child that runs first sends
\* the termination signal; the kill is sent only after it, only by a
\* cleanup() whose grace wait ended with the child still running, and always
\* then; a grace wait that ends with the child exited sends nothing.
C17_GracefulThenForced ==
  [][ /\ (CleanupBegins /\ mcp_process /= None /\ procState[mcp_process] = "running")
           => /\ signals'[mcp_process] = Append(signals[mcp_process], "term")
              /\ pc'["main"] = "cleanup_wait"
      /\ \A p \in Starts :
           (signals'[p] /= signals[p] /\ signals'[p] = Append(signals[p], "kill"))
             => /\ pc["main"] = "cleanup_wait"
                /\ p = mcp_process
                /\ procState[p] = "running"
                /\ signals[p] /= <<>>
                /\ signals[p][Len(signals[p])] = "term"
      /\ (pc["main"] = "cleanup_wait" /\ pc'["main"] /= "cleanup_wait")
           => IF procState[mcp_process] = "running"
                THEN signals'[mcp_process] = Append(signals[mcp_process], "kill")
                ELSE signals' = signals ]_vars

\* A child that ignored the termination signal was killed.
C17_Witness ==
  \E p \in Starts : signals[p] = <<"term", "kill">> /\ procState[p] = "exited"

\* C18 (terminating an exited child is a no-op): a cleanup() entered on a
\* manager whose child has exited sends no signal, raises nothing and goes on
\* to stop the loop and clear the handles, with no grace wait and no kill.
C18_ExitedChildNoOp ==
  [][ (CleanupBegins /\ mcp_process /= None /\ procState[mcp_process] = "exited")
        => /\ signals' = signals
           /\ raised' = raised
           /\ pc'["main"] = "cleanup_loop" ]_vars

\* cleanup() is past its terminate step on a child that exited on its own:
\* nothing was ever sent to it.
C18_Witness ==
  /\ pc["main"] = "cleanup_loop"
  /\ mcp_process /= None
  /\ procState[mcp_process] = "exited"
  /\ signals[mcp_process] = <<>>

\* C19 (handshake rejection): when the line initialize() is handed as the
\* response to its request carries an error field, initialize() returns a
\* false value, so that start() returns False.
C19_HandshakeRejected ==
  [][ \A i \in DOMAIN tasks :
        LET p == tasks[i].client
        IN ( /\ tasks[i].kind = "initialize"
             /\ tasks[i].st = "reading"
             /\ tasks'[i].st = "done"
             /\ stdout'[p] /= stdout[p]
             /\ JsonLines(stdout[p]) /= {}
             /\ AcceptFrame(stdout[p], tasks[i].id).kind = "error" )
           => tasks'[i].res.k = "false" ]_vars

\* C20 (handshake timeout): when the wait for the response to initialize
\* timed out, at the startup timeout of the manager or at the wait_for of the
\* client, initialize() returns a false value, the notifications/initialized
\* message is not sent, and start() does not return True.
C20_HandshakeTimeout ==
  \A n \in Starts : \A j \in InitTaskOf(n) :
    (tasks[j].timedOut \/ tasks[j].abandoned)
    => /\ tasks[j].st = "done" => tasks[j].res.k = "false"
       /\ \A m \in DOMAIN stdin[n] : stdin[n][m].method /= "notifications/initialized"
       /\ startRet[n] /= "true"

\* The messages a child has received follow the order of the handshake: the
\* initialize request first, the notifications/initialized second, and the
\* tools/list request, when there is one, third.
HandshakeOrder(p) ==
  /\ Len(stdin[p]) >= 1 => stdin[p][1].method = "initialize"
  /\ Len(stdin[p]) >= 2 => stdin[p][2] = InitializedNotification
  /\ \A j \in DOMAIN stdin[p] : stdin[p][j].method = "tools/list" => j = 3

\* C21: for every child the manager spawns, over any sequence of start(),
\* call_tool() and cleanup() calls, the messages on its stdin are the
\* initialize request, then notifications/initialized, then tools/list, and
\* a tools/call request is written only after the notification, which the
\* client writes once it has read the response to initialize.
C21_HandshakeBeforeCalls ==
  \A p \in Starts :
    (\E j \in DOMAIN stdin[p] : stdin[p][j].method = "tools/call") => HandshakeOrder(p)

\* The response lines of a stream: its segments that are not blank.
MessagesOf(s) ==
  LET lines == Split(s)
      keep(l) == Strip(l) /= <<>>
      sel == SelectSeq(lines, keep)
  IN [i \in DOMAIN sel |-> Strip(sel[i])]

\* The stream is a sequence of newline-terminated JSON messages.
IsMessageStream(s) ==
  /\ s /= <<>>
  /\ s[Len(s)] = LF
  /\ \A i \in DOMAIN MessagesOf(s) : IsCompleteJson(MessagesOf(s)[i])
  /\ \A i \in DOMAIN s : s[i] /= SP

\* The texts the reads delivered as messages, in order.
DeliveredLines ==
  LET isLine(r) == r.why = "line"
      sel == SelectSeq(reads, isLine)
  IN [i \in DOMAIN sel |-> sel[i].text]

\* C22: for a stream of newline-terminated JSON messages, whatever the sizes
\* of the chunks in which it is delivered, once successive reads have taken
\* all of it the messages they delivered are the messages of the stream, in
\* order: what follows a complete message in a chunk is not lost.
C22_FramingCorrectness ==
  (IsMessageStream(sent) /\ wire = <<>> /\ ~reading) => DeliveredLines = MessagesOf(sent)

\* C23: when the peer's text exceeds the buffer cap without a newline and
\* without parsing, the read ends (it neither grows nor hangs) and the call
\* fails: the buffered text is not what call_tool returns as its result.
C23_OverflowGuard ==
  \A i \in DOMAIN reads :
    reads[i].why = "overflow" => reads[i].ret.k \notin {"raw", "value"}

\* C24: a read that ends because the peer closed its stdout before a complete
\* message arrived has an outcome that no read ended by a buffer overflow and
\* no read that delivered a message has.
C24_PeerClosedDistinct ==
  \A i, j \in DOMAIN reads :
    (reads[i].why = "eof" /\ reads[j].why \in {"overflow", "line"})
      => reads[i].text /= reads[j].text

\* {"result": {"content": [{"text": "a"}, {"text": "b"}]}}
ExampleContent ==
  [error |-> Absent,
   result |-> Obj(<< <<"content", Arr(<<Obj(<< <<"text", Str("a")>> >>),
                                        Obj(<< <<"text", Str("b")>> >>)>>)>> >>)]

\* {"result": "plain"}
ExamplePlain == [error |-> Absent, result |-> Str("plain")]

\* The value the claim resolves a mapping to: its content when present, else
\* its text when present, else its string form.
ClaimedResolved(result) ==
  IF Has(result, "content") THEN Get(result, "content", Absent)
  ELSE IF Has(result, "text") THEN Get(result, "text", Absent)
  ELSE Str(PyStr(result))

\* The elements the claim speaks of: non-mappings, and mappings with a text.
ClaimedItems(seq) == \A i \in DOMAIN seq : seq[i].t = "dict" => Has(seq[i], "text")

ClaimedItemText(item) ==
  IF item.t = "dict" THEN PyStr(Get(item, "text", Absent)) ELSE PyStr(item)

\* C25: for a response without an error field, call_tool returns, when result
\* is a mapping, its content when present, else its text when present, else
\* the string form of the mapping, a sequence being replaced by the
\* newline-joined texts of its elements; otherwise the string form of result.
\* The two examples give "a\nb" and "plain".
C25_ContentUnwrapping ==
  (returned /= <<>> /\ ~HasError(response) /\ response.result.t /= "absent") =>
    LET result == response.result
        resolved == ClaimedResolved(result)
    IN /\ (result.t = "dict" /\ resolved.t = "list" /\ ClaimedItems(resolved.v))
            => returned[1] = Join("\n", [i \in DOMAIN resolved.v |->
                                             ClaimedItemText(resolved.v[i])])
       /\ (result.t = "dict" /\ resolved.t /= "list") => returned[1] = PyStr(resolved)
       /\ result.t /= "dict" => returned[1] = PyStr(result)
       /\ response = ExampleContent => returned[1] = "a\nb"
       /\ response = ExamplePlain => returned[1] = "plain"

\* call_tool has returned for the first example, whose result has a content
\* array of two text elements.
C25_Witness ==
  /\ response = ExampleContent
  /\ returned = <<"a\nb">>

\* C26: whenever the response has an error field, with or without a result
\* field, call_tool returns (it raises nothing) the failure-marked string
\* that embeds the string form of the error payload; the result field plays
\* no part. {"error": "boom"} gives a failure string that ends with "boom".
C26_ErrorBecomesFailureString ==
  (returned /= <<>> /\ response.error.t /= "absent") =>
    /\ returned[1] = FailureMark \o " Server error: " \o PyStr(response.error)
    /\ response.error = Str("boom") => returned[1] = "(x) Server error: boom"

\* call_tool has returned for a response that has both an error field and a
\* result field that would unwrap to a text.
C26_Witness ==
  /\ response = [error |-> Str("boom"), result |-> Str("plain")]
  /\ returned = <<"(x) Server error: boom">>

\* The first line of a stream that parses as JSON, were the whole stream at
\* hand; <<>> when it has none.
FirstJsonLine(s) ==
  LET lines == Split(s)
      hits == {i \in DOMAIN lines : IsCompleteJson(lines[i])}
  IN IF hits = {} THEN <<>>
     ELSE Strip(lines[CHOOSE i \in hits : \A j \in hits : i <= j])

EofIsNoMessage ==
  \A i \in DOMAIN reads : reads[i].why \in {"eof", "overflow", "exited"}
                             => ~IsCompleteJson(reads[i].text)

\* The coroutines that are inside a write on the stdin of child p.
Writers(p) == {i \in DOMAIN tasks : tasks[i].client = p /\ tasks[i].st = "writing"}

\* C28: on a started manager, for any concurrent callers, every request on
\* the child's stdin was written by a coroutine of the one event loop of the
\* manager, and at most one coroutine is inside a write at any moment: a
\* request line is written whole before another write begins.
C28_SingleWriter ==
  /\ \A p \in Starts : Cardinality(Writers(p)) <= 1
  /\ \A i \in DOMAIN tasks : tasks[i].loop = tasks[i].client
  /\ \A p \in Starts : \A j \in DOMAIN stdin[p] :
       stdin[p][j].id /= NoId =>
         \E i \in DOMAIN tasks : /\ tasks[i].client = p
                                 /\ tasks[i].id = stdin[p][j].id
                                 /\ tasks[i].kind = stdin[p][j].method
                                 /\ tasks[i].st \notin {"scheduled", "writing"}

\* Two threads are inside call_tool(); the coroutine of one is blocked in its
\* write to a child that stopped reading and the coroutine of the other
\* waits for the loop.
C28_Witness ==
  /\ pc["main"] = "call_wait"
  /\ pc["w1"] = "call_wait"
  /\ \E i, j \in CallTasks : /\ tasks[i].st = "writing"
                             /\ tasks[j].st = "scheduled"
                             /\ tasks[i].loop = tasks[j].loop

\* The coroutines for which a thread is parked in the read of child p's stdout.
PendingReads(p) == {i \in DOMAIN tasks : tasks[i].client = p /\ tasks[i].rd = "blocked"}

\* C29: at any moment at most one read of a child's stdout is pending: the
\* read left over from a call that timed out or was cancelled is never
\* pending together with the read of a later call.
C29_OnePendingRead ==
  \A p \in Starts : Cardinality(PendingReads(p)) <= 1

\* C30: the catalog changes only when cleanup() empties it and when the
\* discovery of a start() writes it: no step of call_tool(), list_tools() or
\* is_healthy(), whether the call succeeds, fails or times out, and nothing
\* a caller does with what list_tools() returned, changes it.
C30_CatalogImmutable ==
  [][available_tools' /= available_tools =>
       \/ pc["main"] = "cleanup_loop" /\ available_tools' = {}
       \/ pc["main"] = "start_wait_disc"]_vars

\* The catalog is populated, a call_tool() has timed out, and the caller of
\* list_tools() has changed the dictionary it was given.
C30_Witness ==
  /\ available_tools = Tools
  /\ ret["main"] = CallFailed
  /\ listed /= NoListing
  /\ listed.tools /= available_tools

\* The tools member of a tools/list response that has one and no error.
ListedTools(resp) == Get(resp.result, "tools", Arr(<<>>)).v

\* The response is a result whose tools all have a name.
IsCatalogResponse(resp) ==
  /\ ~HasError(resp)
  /\ resp.result.t = "dict"
  /\ Has(resp.result, "tools")
  /\ \A i \in DOMAIN ListedTools(resp) : Has(ListedTools(resp)[i], "name")

\* C31: list_tools maps each tool name of result.tools to its descriptor,
\* the last descriptor of a name winning, and returns the empty mapping when
\* the peer returns no tools, which the discovery does not treat as a failure.
C31_CatalogDiscovery ==
  (returned /= <<>> /\ IsCatalogResponse(response)) =>
    LET tools == ListedTools(response)
        m == returned[1]
        nameOf(i) == Get(tools[i], "name", Absent).v
    IN /\ DOMAIN m = {nameOf(i) : i \in DOMAIN tools}
       /\ \A i \in DOMAIN tools :
            (\A j \in DOMAIN tools : nameOf(j) = nameOf(i) => j <= i)
              => m[nameOf(i)] = tools[i]
       /\ (tools = <<>> /\ Len(returned) = 2) => returned[2] = TRUE

\* The same without its last part: the mapping list_tools returns.
ListToolsRekeys ==
  (returned /= <<>> /\ IsCatalogResponse(response)) =>
    LET tools == ListedTools(response)
        m == returned[1]
        nameOf(i) == Get(tools[i], "name", Absent).v
    IN /\ DOMAIN m = {nameOf(i) : i \in DOMAIN tools}
       /\ \A i \in DOMAIN tools :
            (\A j \in DOMAIN tools : nameOf(j) = nameOf(i) => j <= i)
              => m[nameOf(i)] = tools[i]

\* The child the manager holds has exited.
ChildDead == mcp_process /= None /\ procState[mcp_process] = "exited"

\* C32: once the child the manager holds has exited, is_healthy() is False
\* and a call_tool() is rejected (it returns None and submits nothing), in
\* every state until start() spawns again; and a child is spawned by no step
\* other than the spawn of a start().
C32_DeathIsTerminal ==
  [][/\ ChildDead => ~is_healthy
     /\ (ChildDead /\ ncalls' /= ncalls)
          => /\ tasks' = tasks
             /\ pc' = pc
             /\ \E t \in Threads : ret'[t] = Outcome("None", NoFrame, FALSE, {})
     /\ \A p \in Starts :
          (procState[p] = "none" /\ procState'[p] /= "none") => pc["main"] = "start_spawn"
    ]_vars

\* start() had returned True, the child exited afterwards, and a call_tool()
\* made since then returned None.
C32_Witness ==
  /\ ChildDead
  /\ ready
  /\ ncalls >= 1
  /\ ret["main"] = Outcome("None", NoFrame, FALSE, {})

\* The tools/call coroutines that read the result frame answering their own
\* request for the tool ping, written by the peer while they waited.
PingAnswered ==
  {i \in DOMAIN tasks :
     /\ tasks[i].kind = "tools/call" /\ tasks[i].tool = "ping"
     /\ tasks[i].st = "done" /\ ~tasks[i].abandoned
     /\ tasks[i].res.k = "result" /\ tasks[i].res.src = tasks[i].id
     /\ ~tasks[i].res.late}

\* The requests of a coroutine on the stdin of its child.
RequestsOf(i) ==
  {j \in DOMAIN stdin[tasks[i].client] : stdin[tasks[i].client][j].id = tasks[i].id}

\* C33 (end-to-end scenario): with a peer that answers initialize, answers
\* tools/list with the catalog {ping} and answers tools/call with a result,
\* start() returns True, the catalog list_tools() copies is {ping},
\* and the call of ping wrote exactly one tools/call request naming ping and
\* returned the result of the frame that answers it.
C33_EndToEnd ==
  /\ \A n \in Starts :
       (HandshakeOk(n) /\ DiscoveryOk(n) /\ startRet[n] /= "running")
         => startRet[n] = "true"
  /\ \A n \in Starts : \A j \in ListTaskOf(n) :
       (/\ startRet[n] = "true" /\ ready /\ nstarts = n
        /\ tasks[j].st = "done" /\ ~tasks[j].abandoned
        /\ tasks[j].res.k = "tools" /\ tasks[j].res.tools = Tools)
         => available_tools = Tools
  /\ \A i \in PingAnswered :
       /\ Cardinality(RequestsOf(i)) = 1
       /\ \A j \in RequestsOf(i) :
            stdin[tasks[i].client][j] = Request("tools/call", tasks[i].id, "ping")
       /\ (pc["main"] = "idle" /\ tasks[i].call = ncalls) => ret["main"] = tasks[i].res

\* The scenario ran to its end: the four messages on the child's stdin, the
\* catalog {ping}, and call_tool returned the result of frame 3.
C33_Witness ==
  /\ startRet[1] = "true" /\ ready /\ available_tools = Tools
  /\ stdin[1] = << Request("initialize", 1, ""), Request("notifications/initialized", NoId, ""),
                   Request("tools/list", 2, ""), Request("tools/call", 3, "ping") >>
  /\ PingAnswered /= {}
  /\ ret["main"] = Outcome("result", 3, FALSE, {})

\* C34 (fail-fast start): when the child has exited by the liveness check
\* after the grace window, start() returns False there and then, creates no
\* client, submits no coroutine and writes no request; and a start() that
\* failed before any coroutine was submitted left the stdin of its child
\* empty.
C34_FailFastStart ==
  [][/\ (/\ pc["main"] = "start_grace" /\ pc'["main"] /= "start_grace"
         /\ procState[nstarts] /= "running")
          => /\ startRet'[nstarts] = "false" /\ pc'["main"] = "idle"
             /\ mcp_client' = mcp_client /\ tasks' = tasks /\ stdin' = stdin
     /\ \A n \in Starts :
          (startRet[n] = "false" /\ InitTaskOf(n) = {}) => stdin[n] = <<>>
    ]_vars

\* start() returned False for a child that had exited during the grace
\* window: no client, no coroutine, nothing written.
C34_Witness ==
  /\ startRet[1] = "false" /\ procState[1] = "exited" /\ InitTaskOf(1) = {}
  /\ mcp_client = None /\ stdin[1] = <<>> /\ pc["main"] = "idle"

\* call_tool was reached by the route and returned None or a text that
\* begins with the failure mark.
ToolCallFailed(q) ==
  /\ q.healthy
  /\ (q.route \in {"/summarize", "/search"}) => q.input
  /\ q.result = PyNone \/ StartsWith(q.result.v, ClientMark)

\* C35 (uniform error envelope): for every route that invokes a tool,
\* whenever call_tool returns None or a failure-marked string the route
\* answers with an error envelope and a status other than 200, never with a
\* result envelope.
C35_UniformErrorEnvelope ==
  (returned /= <<>> /\ ToolCallFailed(response)) =>
    (returned[1].key = "error" /\ returned[1].status /= "200")

\* The summarize route of web_server.py does translate both failures.
WebSummarizeTranslates ==
  (/\ returned /= <<>> /\ ToolCallFailed(response)
   /\ response.server = "web_server" /\ response.route = "/summarize") =>
    (returned[1].key = "error" /\ returned[1].status = "500")

\* C36 (safety against a concurrent cleanup): in every interleaving with a
\* cleanup() on another thread, is_healthy() returns a boolean and call_tool()
\* returns a string or None; neither raises.
C36_ConcurrentCleanupSafe ==
  \A t \in Threads : ret[t] /= AttributeError

\* What does hold: once is_healthy() has returned True inside call_tool(),
\* call_tool() returns a string whatever cleanup() does meanwhile.
CallToolPastGateReturns ==
  [][\A t \in Threads :
       (pc[t] \in {"call_gate", "call_client", "run_check", "run_submit", "call_wait"}
          /\ pc'[t] = "idle")
         => ret'[t].k \in {"not_available", "error_calling", "failed", "result",
                           "error", "timeout", "died", "empty", "late"}
    ]_vars

\* The values of call_tool() that are None or carry the failure mark.
FailureSentinels ==
  {"None", "not_available", "failed", "timeout", "died", "error_calling", "error"}

\* C37 (a call in flight during cleanup): a call_tool() that returns after
\* cleanup() signalled the child, with a value that was computed from no
\* frame of the peer, returns a failure sentinel (a failure-marked string or
\* None), never a value presented as a successful result.
C37_InFlightFailsCleanly ==
  [][\A t \in Threads :
       (/\ pc[t] = "call_wait" /\ pc'[t] = "idle"
        /\ signals[tasks[curTask[t]].client] /= <<>>
        /\ ret'[t].src = NoFrame)
         => ret'[t].k \in FailureSentinels
    ]_vars

\* What does hold: a call in flight never blocks forever, its wait can always
\* end (future.result has a finite timeout).
InFlightCanReturn ==
  \A t \in Threads : pc[t] = "call_wait" => ENABLED (CallDone(t) \/ CallTimeout(t))

\* The children that run.
LiveChildren == {p \in Starts : procState[p] = "running"}

\* C38 (exclusive ownership): over any sequence of start() and cleanup(),
\* start() twice without a cleanup() included, the manager holds the handle
\* of every live child it spawned, so at most one child is live; and after
\* cleanup() no child is left running that was never signalled.
C38_ExclusiveOwnership ==
  /\ \A p \in LiveChildren : mcp_process = p
  /\ Cardinality(LiveChildren) <= 1
  /\ (pc["main"] = "idle" /\ mcp_process = None)
       => \A p \in LiveChildren : signals[p] /= <<>>

\* The coroutines whose value was computed from a response frame.
Consumers == {i \in DOMAIN tasks : tasks[i].res.src \notin {NoFrame, NoId}}

\* C39 (a frame is consumed at most once): under any interleaving of
\* concurrent calls and timeouts, no two coroutines computed their value from
\* the same response frame, and a frame a coroutine consumed is no longer in
\* the pipe for a later read.
C39_FrameConsumedOnce ==
  /\ \A i, j \in Consumers :
       (tasks[i].client = tasks[j].client /\ tasks[i].res.src = tasks[j].res.src)
         => i = j
  /\ \A i \in Consumers :
       \A m \in DOMAIN stdout[tasks[i].client] :
         stdout[tasks[i].client][m].id /= tasks[i].res.src

\* Two concurrent calls each consumed one frame, each the answer to the
\* other's request, and the pipe is empty.
C39_Witness ==
  \E i, j \in CallTasks :
    /\ i /= j
    /\ tasks[i].st = "done" /\ tasks[j].st = "done"
    /\ tasks[i].res.src = tasks[j].id /\ tasks[j].res.src = tasks[i].id
    /\ stdout[1] = <<>>

\* C40 (handshake completion): initialize() returns True and sends
\* notifications/initialized only after its read returned a complete line
\* that parses as JSON; not when the read ended because stdout was closed,
\* the child exited or the buffer overflowed.
C40_HandshakeNeedsResponse ==
  \A n \in DOMAIN reads :
    reads[n].init => (reads[n].why = "line" /\ IsCompleteJson(reads[n].text))

\* What does hold: after a read that found the child exited, initialize()
\* returns False, and after a line that parses it returns True.
InitializeOnExitAndLine ==
  \A n \in DOMAIN reads :
    /\ reads[n].why = "exited" => ~reads[n].init
    /\ reads[n].why = "line" => (reads[n].init /\ IsCompleteJson(reads[n].text))
====
